---- MODULE Spec2Model ----
(***************************************************************************)
(* Chunked-translation pipeline of tools/converter.py                      *)
(* (OptimizedSubtitleConverter): split_text, process_chunk_async,          *)
(* process_chunks_sequentially, extract_incomplete_sentence,               *)
(* merge_content, final_cleanup, process_file_async and the boundary       *)
(* repair pass: extract_boundary_context, apply_boundary_fix,              *)
(* optimize_single_boundary_async and optimize_boundaries_async.           *)
(*                                                                         *)
(* A Python str is a sequence of tokens.  A token is one character, or an  *)
(* atomic literal of the source that the regular expressions only ever     *)
(* match as a whole:                                                       *)
(*   "N"  the literal  不完整句子          (5 characters)                   *)
(*   "W"  the literal  文件末尾            (4 characters)                   *)
(*   "R"  the literal  如有                (2 characters)                   *)
(*   "A"  the literal  英文整理段落        (6 characters)                   *)
(*   "B"  the literal  对应中文翻译        (6 characters)                   *)
(*   "P"  the literal  处理失败的内容      (7 characters)                   *)
(*   "L"  a run of 100 letters, none of them a bracket or whitespace       *)
(*   "S"  the literal  ---SPLIT_POINT---   (17 characters)                 *)
(* " " and "\n" are the whitespace characters; every other token is one    *)
(* non-whitespace character.                                               *)
(***************************************************************************)
EXTENDS Integers, Sequences, FiniteSets, TLC

VARIABLES
    config,               \* self.config: chunk_size, retry_attempts, retry_delay
    text,                 \* content returned by read_file
    pc,                   \* position of the single thread of control
    chunks,               \* chunks returned by split_text
    i,                    \* loop index of process_chunks_sequentially (0-based)
    chunk,                \* input text of the current step (after augmentation)
    incomplete_sentence,  \* carry-over fragment
    processed_chunks,     \* stored outputs
    failed_chunks,        \* self.failed_chunks
    attempt,              \* loop variable of process_chunk_async
    tries,                \* requests issued by the current logical call
    waits,                \* asyncio.sleep durations of the current logical call
    call_state,           \* "idle" | "running" | "ok" | "failed" for the current logical call
    in_flight,            \* outbound requests issued and not yet answered
    session_open,         \* the aiohttp.ClientSession of the sequential pass
    last_request,         \* step index of the latest request issued, NoRequest before the first
    last_error,           \* the exception e bound in the except clause, NoError outside it
    history,              \* per finished step: input sent, outcome, raw response
    final_content,        \* document returned by merge_content
    split_positions,      \* seam offsets returned by merge_content
    output,               \* documents written to output_file: NoFile or <<document>>
    document,             \* content of optimize_boundaries_async: the document under repair
    sorted_positions,     \* the seams in the order the repair pass visits them
    seam,                 \* number of seams the repair loop has finished
    boundary,             \* window of the current seam: text, start_pos, end_pos
    repaired,             \* offsets of the seams a repair call was made for, in order
    seam_results,         \* success of each finished repair call, in order
    fixed_content,        \* text the latest repair call returned, None before it and on failure
    processed_files,      \* processed_files of batch_process_folder: one status per file
    youtube_link,         \* main.py: whether args.youtube_link was given
    stage,                \* main.py: the step main() is at, "idle" outside a run of main.py
    exit_code,            \* main.py: exit code of the run, NoExit while it runs
    ran,                  \* main.py: the scripts run_script was called for, with what it returned
    fs,                   \* the directories ../raw, ../processed, ../output and their files
    produced,             \* the documents the converter stage of this run wrote
    consumed              \* the documents the formatter stage of this run read

repair_vars == <<document, sorted_positions, seam, boundary, repaired, seam_results,
                 fixed_content>>

main_vars == <<youtube_link, stage, exit_code, ran, fs, produced, consumed>>

vars == <<config, text, pc, chunks, i, chunk, incomplete_sentence,
          processed_chunks, failed_chunks, attempt, tries, waits, call_state,
          in_flight, session_open, last_request, last_error, history,
          final_content, split_positions, output, document, sorted_positions,
          seam, boundary, repaired, seam_results, fixed_content,
          processed_files, youtube_link, stage, exit_code, ran, fs, produced,
          consumed>>

converter_vars ==
    <<config, text, pc, chunks, i, chunk, incomplete_sentence,
      processed_chunks, failed_chunks, attempt, tries, waits, call_state,
      in_flight, session_open, last_request, last_error, history,
      final_content, split_positions, output, document, sorted_positions,
      seam, boundary, repaired, seam_results, fixed_content,
      processed_files>>

(***************************************************************************)
(* Bounds of the model                                                     *)
(***************************************************************************)
MaxChunkSize == 2
MaxRetries == 3
MaxWords == 2
MaxTextLen == 5

(***************************************************************************)
(* Strings                                                                 *)
(***************************************************************************)
SP == " "
NL == "\n"
NoRequest == -1
NoError == "none"

\* what process_chunk_async hands back when its loop body never runs: None
NoResult == <<>>

\* output holds the documents written: none, or the one of f.write
NoFile == <<>>

IsSpace(c) == c \in {SP, NL}

\* len() of the characters one token stands for
CharLen(c) ==
    CASE c = "L" -> 100
      [] c = "S" -> 17
      [] c = "P" -> 7
      [] c = "A" -> 6
      [] c = "B" -> 6
      [] c = "N" -> 5
      [] c = "W" -> 4
      [] c = "R" -> 2
      [] OTHER -> 1

\* len(s)
RECURSIVE StrLen(_)
StrLen(s) == IF s = <<>> THEN 0 ELSE CharLen(Head(s)) + StrLen(Tail(s))

Min(a, b) == IF a < b THEN a ELSE b
Max(a, b) == IF a > b THEN a ELSE b

\* str.lstrip() / str.rstrip() / str.strip()
RECURSIVE lstrip(_)
lstrip(s) == IF s # <<>> /\ IsSpace(Head(s)) THEN lstrip(Tail(s)) ELSE s

RECURSIVE rstrip(_)
rstrip(s) ==
    IF s # <<>> /\ IsSpace(s[Len(s)]) THEN rstrip(SubSeq(s, 1, Len(s) - 1)) ELSE s

strip(s) == rstrip(lstrip(s))

\* str.split(): the maximal runs of non-whitespace characters, in order
split(s) ==
    LET RECURSIVE go(_, _, _)
        go(k, cur, acc) ==
            IF k > Len(s)
            THEN IF cur = <<>> THEN acc ELSE Append(acc, cur)
            ELSE IF IsSpace(s[k])
                 THEN go(k + 1, <<>>, IF cur = <<>> THEN acc ELSE Append(acc, cur))
                 ELSE go(k + 1, Append(cur, s[k]), acc)
    IN go(1, <<>>, <<>>)

\* sep.join(parts)
RECURSIVE join(_, _)
join(parts, sep) ==
    IF parts = <<>> THEN <<>>
    ELSE IF Len(parts) = 1 THEN parts[1]
    ELSE parts[1] \o sep \o join(Tail(parts), sep)

\* range(0, stop, step) for step # 0, as the sequence of its values
Range0(stop, step) ==
    IF step > 0 /\ stop > 0
    THEN [k \in 1..((stop + step - 1) \div step) |-> (k - 1) * step]
    ELSE <<>>

\* words[lo:hi] for 0 <= lo <= hi
Slice(words, lo, hi) == SubSeq(words, lo + 1, Min(hi, Len(words)))

(***************************************************************************)
(* split_text                                                              *)
(***************************************************************************)
\* a slip in the slice bound: each chunk loses its last word
split_text_short(t, chunk_size) ==
    LET words == split(t)
        starts == Range0(Len(words), chunk_size)
    IN [k \in 1..Len(starts) |->
            join(Slice(words, starts[k], starts[k] + chunk_size - 1), <<SP>>)]

\* a slip in the loop bound: one more chunk is cut after the last word
split_text_extra(t, chunk_size) ==
    LET words == split(t)
        starts == Range0(Len(words) + 1, chunk_size)
    IN [k \in 1..Len(starts) |->
            join(Slice(words, starts[k], starts[k] + chunk_size), <<SP>>)]

\* split_text for chunk_size # 0 (range() raises ValueError on a zero step)
split_text(t, chunk_size) ==
    LET words == split(t)
        starts == Range0(Len(words), chunk_size)
    IN [k \in 1..Len(starts) |->
            join(Slice(words, starts[k], starts[k] + chunk_size), <<SP>>)]

(***************************************************************************)
(* Regular expressions  \[ head [^\]]{lo,} \]  and  \[ head \]              *)
(***************************************************************************)
LongBracketMin == 100
MaxHeadingLevel == 6

\* index of the first "]" at or after position from, 0 when there is none
FirstClose(s, from) ==
    LET c == {j \in from..Len(s) : s[j] = "]"}
    IN IF c = {} THEN 0 ELSE CHOOSE j \in c : \A x \in c : j <= x

\* re.match of the pattern at position k: index of its closing "]", or 0.
\* [^\]] cannot cross a "]", so the match closes at the first "]" after head.
BracketEnd(s, k, head, lo, exact) ==
    LET h == Len(head)
        j == FirstClose(s, k + h + 1)
        n == IF j > 0 THEN StrLen(SubSeq(s, k + h + 1, j - 1)) ELSE 0
    IN IF /\ k + h <= Len(s)
          /\ s[k] = "["
          /\ \A m \in 1..h : s[k + m] = head[m]
          /\ j > 0
          /\ n >= lo
          /\ (exact => n = 0)
       THEN j ELSE 0

\* re.sub(pattern, '', s): leftmost non-overlapping matches are removed
re_sub_bracket(s, head, lo, exact) ==
    LET RECURSIVE go(_)
        go(k) ==
            IF k > Len(s) THEN <<>>
            ELSE LET j == BracketEnd(s, k, head, lo, exact)
                 IN IF j > 0 THEN go(j + 1) ELSE <<s[k]>> \o go(k + 1)
    IN go(1)

\* re.search(pattern, s): start of the leftmost match, or 0
re_search_bracket(s, head, lo, exact) ==
    LET m == {k \in 1..Len(s) : BracketEnd(s, k, head, lo, exact) > 0}
    IN IF m = {} THEN 0 ELSE CHOOSE k \in m : \A x \in m : k <= x

\* number of "#" characters starting at position k
HashRun(s, k) ==
    LET RECURSIVE go(_)
        go(m) == IF m <= Len(s) /\ s[m] = "#" THEN 1 + go(m + 1) ELSE 0
    IN go(k)

\* re.sub(r'\n(#{1,6}\s)', r'\n\n\1', s)
re_sub_heading(s) ==
    LET RECURSIVE go(_)
        go(k) ==
            IF k > Len(s) THEN <<>>
            ELSE LET h == HashRun(s, k + 1)
                 IN IF /\ s[k] = NL
                       /\ h >= 1
                       /\ h <= MaxHeadingLevel
                       /\ k + 1 + h <= Len(s)
                       /\ IsSpace(s[k + 1 + h])
                    THEN <<NL, NL>> \o SubSeq(s, k + 1, k + 1 + h) \o go(k + 2 + h)
                    ELSE <<s[k]>> \o go(k + 1)
    IN go(1)

\* number of "\n" characters starting at position k
NewlineRun(s, k) ==
    LET RECURSIVE go(_)
        go(m) == IF m <= Len(s) /\ s[m] = NL THEN 1 + go(m + 1) ELSE 0
    IN go(k)

\* re.sub(r'\n{3,}', '\n\n', s)
re_sub_newlines(s) ==
    LET RECURSIVE go(_)
        go(k) ==
            IF k > Len(s) THEN <<>>
            ELSE LET r == NewlineRun(s, k)
                 IN IF r >= 3 THEN <<NL, NL>> \o go(k + r)
                    ELSE <<s[k]>> \o go(k + 1)
    IN go(1)

(***************************************************************************)
(* The marker convention                                                   *)
(***************************************************************************)
IncompleteHead == <<"N", ":">>
EndOfFileHead == <<"W", "N", ":">>

\* "[不完整句子: " + t + "]", the form the prompt asks the model for
Marker(t) == <<"[">> \o IncompleteHead \o <<SP>> \o t \o <<"]">>

\* f"# 处理失败的内容\n\n{chunk}"
Placeholder(c) == <<"#", SP, "P", NL, NL>> \o c

\* f"\n\n[文件末尾不完整句子: {incomplete_sentence}]"
EndOfFileNote(f) == <<NL, NL, "[">> \o EndOfFileHead \o <<SP>> \o f \o <<"]">>

\* incomplete_pattern = r'\[不完整句子:\s*([^\]]+)\]'; match.group(1).strip()
MarkerFragment(content) ==
    LET k == re_search_bracket(content, IncompleteHead, 1, FALSE)
        j == BracketEnd(content, k, IncompleteHead, 1, FALSE)
    IN IF k = 0 THEN <<>>
       ELSE strip(SubSeq(content, k + Len(IncompleteHead) + 1, j - 1))

HasMarker(content) == re_search_bracket(content, IncompleteHead, 1, FALSE) > 0

\* extract_incomplete_sentence: (clean_content, incomplete_sentence)
extract_incomplete_sentence(content) ==
    IF content = <<>> THEN <<content, <<>>>>
    ELSE IF HasMarker(content)
         THEN <<strip(re_sub_bracket(content, IncompleteHead, 1, FALSE)),
                MarkerFragment(content)>>
         ELSE <<content, <<>>>>

(***************************************************************************)
(* final_cleanup and merge_content                                         *)
(***************************************************************************)
\* format_markers, in the order of the list
FormatMarkers ==
    << [head |-> <<"A">>,        lo |-> 0, exact |-> TRUE],
       [head |-> <<"B">>,        lo |-> 0, exact |-> TRUE],
       [head |-> <<"R", "N">>,   lo |-> 0, exact |-> TRUE],
       [head |-> IncompleteHead, lo |-> 0, exact |-> FALSE],
       [head |-> EndOfFileHead,  lo |-> 0, exact |-> FALSE],
       [head |-> <<"N">>,        lo |-> 0, exact |-> TRUE] >>

\* for pattern in format_markers: content = re.sub(pattern, '', content)
RECURSIVE RemoveFormatMarkers(_, _)
RemoveFormatMarkers(content, k) ==
    IF k > Len(FormatMarkers) THEN content
    ELSE RemoveFormatMarkers(
             re_sub_bracket(content, FormatMarkers[k].head,
                            FormatMarkers[k].lo, FormatMarkers[k].exact),
             k + 1)

final_cleanup(content) ==
    LET c1 == RemoveFormatMarkers(content, 1)
        c2 == re_sub_bracket(c1, <<>>, LongBracketMin, FALSE)
        c3 == re_sub_heading(c2)
        c4 == re_sub_newlines(c3)
    IN strip(c4)

\* only the empty output is dropped, a whitespace-only one is kept
NonBlank_truthy(c) == c # <<>>

\* chunk and chunk.strip()
NonBlank(c) == c # <<>> /\ strip(c) # <<>>

\* a seam is recorded before the first surviving chunk too
merge_content_first(cs) ==
    LET valid_chunks == SelectSeq(cs, NonBlank)
        RECURSIVE go(_, _, _)
        go(k, content, positions) ==
            IF k > Len(valid_chunks) THEN <<content, positions>>
            ELSE go(k + 1,
                    (IF k > 1 THEN content \o <<NL, NL>> ELSE content)
                        \o valid_chunks[k],
                    Append(positions, StrLen(content)))
        merged == go(1, <<>>, <<>>)
    IN <<final_cleanup(merged[1]), merged[2]>>

\* merge_content: (content, split_positions)
merge_content(cs) ==
    LET valid_chunks == SelectSeq(cs, NonBlank)
        RECURSIVE go(_, _, _)
        go(k, content, positions) ==
            IF k > Len(valid_chunks) THEN <<content, positions>>
            ELSE IF k > 1
                 THEN go(k + 1, content \o <<NL, NL>> \o valid_chunks[k],
                         Append(positions, StrLen(content)))
                 ELSE go(k + 1, content \o valid_chunks[k], positions)
        merged == go(1, <<>>, <<>>)
    IN <<final_cleanup(merged[1]), merged[2]>>

(***************************************************************************)
(* Boundary repair: extract_boundary_context and apply_boundary_fix        *)
(***************************************************************************)
\* s[:n] and s[n:] for a character offset n that falls between two tokens
CharPrefix(s, n) ==
    LET ks == {k \in 0..Len(s) : StrLen(SubSeq(s, 1, k)) <= n}
    IN SubSeq(s, 1, CHOOSE k \in ks : \A x \in ks : x <= k)

CharSuffix(s, n) == SubSeq(s, Len(CharPrefix(s, n)) + 1, Len(s))

\* s[lo:hi]
CharSlice(s, lo, hi) == CharSuffix(CharPrefix(s, hi), lo)

\* re.split(r'\n\n+', s): the pieces between the runs of two or more "\n"
Paragraphs(s) ==
    LET RECURSIVE go(_, _, _)
        go(k, cur, acc) ==
            IF k > Len(s) THEN Append(acc, cur)
            ELSE LET r == NewlineRun(s, k)
                 IN IF r >= 2 THEN go(k + r, <<>>, Append(acc, cur))
                    ELSE go(k + 1, Append(cur, s[k]), acc)
    IN go(1, <<>>, <<>>)

\* s.find(t, from), as a number of tokens; -1 when t does not occur
Find(s, t, from) ==
    LET m == {k \in from..(Len(s) - Len(t)) : SubSeq(s, k + 1, k + Len(t)) = t}
    IN IF m = {} THEN -1 ELSE CHOOSE k \in m : \A x \in m : k <= x

\* para_positions: (para_start, para_end) of every paragraph, in characters
ParaPositions(s) ==
    LET parts == Paragraphs(s)
        RECURSIVE go(_, _, _)
        go(k, current_pos, acc) ==
            IF k > Len(parts) THEN acc
            ELSE LET found == Find(s, parts[k], current_pos)
                     para_start == IF found = -1 THEN current_pos ELSE found
                     para_end == para_start + Len(parts[k])
                 IN go(k + 1, para_end,
                       Append(acc, [start |-> StrLen(SubSeq(s, 1, para_start)),
                                    end |-> StrLen(SubSeq(s, 1, para_end))]))
    IN go(1, 0, <<>>)

\* split_para_idx (0-based): the first paragraph ending at or after the
\* seam offset, the last paragraph when there is none
SplitParaIdx(para_positions, split_position) ==
    LET m == {k \in 1..Len(para_positions) : para_positions[k].end >= split_position}
    IN IF m = {} THEN Len(para_positions) - 1
       ELSE (CHOOSE k \in m : \A x \in m : k <= x) - 1

\* the window takes one paragraph more after the seam
extract_boundary_context_wide(s, split_position) ==
    LET para_positions == ParaPositions(s)
        split_para_idx == SplitParaIdx(para_positions, split_position)
        start_idx == Max(0, split_para_idx - 1)
        end_idx == Min(Len(para_positions), split_para_idx + 4)
        start_pos == para_positions[start_idx + 1].start
        end_pos == para_positions[end_idx].end
    IN [text |-> CharSlice(s, start_pos, end_pos),
        start_pos |-> start_pos,
        end_pos |-> end_pos]

\* extract_boundary_context: (boundary_content, start_pos, end_pos)
extract_boundary_context(s, split_position) ==
    LET para_positions == ParaPositions(s)
        split_para_idx == SplitParaIdx(para_positions, split_position)
        start_idx == Max(0, split_para_idx - 1)
        end_idx == Min(Len(para_positions), split_para_idx + 3)
        start_pos == para_positions[start_idx + 1].start
        end_pos == para_positions[end_idx].end
    IN [text |-> CharSlice(s, start_pos, end_pos),
        start_pos |-> start_pos,
        end_pos |-> end_pos]

\* str.replace('---SPLIT_POINT---', '\n\n')
RECURSIVE replace_split_point(_)
replace_split_point(s) ==
    IF s = <<>> THEN <<>>
    ELSE (IF Head(s) = "S" THEN <<NL, NL>> ELSE <<Head(s)>>)
             \o replace_split_point(Tail(s))

\* apply_boundary_fix
apply_boundary_fix(s, start_pos, end_pos, fix) ==
    IF fix = <<>> THEN s
    ELSE LET cleaned_fix ==
                 strip(re_sub_newlines(replace_split_point(strip(fix))))
         IN CharPrefix(s, start_pos) \o cleaned_fix \o CharSuffix(s, end_pos)

\* the second element of a failed repair call's result tuple
None == <<"None">>

\* the window before extract_boundary_context has run
NoBoundary == [text |-> <<>>, start_pos |-> 0, end_pos |-> 0]

\* the sort without reverse=True
SortedPositions_ascending(positions) ==
    LET n == Len(positions)
        Before(a, c) == positions[a] < positions[c]
                          \/ (positions[a] = positions[c] /\ a < c)
        Rank(a) == Cardinality({c \in 1..n : c # a /\ Before(c, a)}) + 1
    IN [k \in 1..n |->
           LET a == CHOOSE x \in 1..n : Rank(x) = k
           IN [idx |-> a - 1, pos |-> positions[a]]]

\* sorted(enumerate(split_positions), key=lambda x: x[1], reverse=True):
\* a stable sort, so equal offsets keep their order of appearance
SortedPositions(positions) ==
    LET n == Len(positions)
        Before(a, c) == positions[a] > positions[c]
                          \/ (positions[a] = positions[c] /\ a < c)
        Rank(a) == Cardinality({c \in 1..n : c # a /\ Before(c, a)}) + 1
    IN [k \in 1..n |->
           LET a == CHOOSE x \in 1..n : Rank(x) = k
           IN [idx |-> a - 1, pos |-> positions[a]]]

(***************************************************************************)
(* Inputs: transcripts, model responses, failures                          *)
(***************************************************************************)
SeqsUpTo(S, n) == UNION {[1..m -> S] : m \in 0..n}

\* words a transcript is made of: a plain word, a word closing a bracket,
\* and a word that is itself an incompleteness marker
Words == { <<"a">>, <<"b", "]">>, <<"[", "N", ":", "a", "]">> }

Texts == { join(ws, <<SP>>) : ws \in SeqsUpTo(Words, MaxWords) }

\* transcripts with arbitrary whitespace, for split_text alone
SplitTexts == SeqsUpTo({"a", "b", SP, NL}, MaxTextLen)

\* text the model returns for an input: the input itself, a translation
\* "c", a translation followed by a marker, or a marker alone
Responses(input) ==
    { input,
      <<"c">>,
      <<"c", NL, NL>> \o Marker(<<"a">>),
      Marker(<<"[", "L">>) }

\* text the model returns for a window: the window itself, nothing, blanks, or a
\* rewrite that still carries the split-point label and a format marker
RepairResponses(window) ==
    { window,
      <<>>,
      <<SP, NL>>,
      <<"d", "S", NL, "[", "N", "]">> }

\* the exception of a failed attempt: session.post raises (network error),
\* the per-call timeout expires, the status is not 200, or the 200 response
\* has no usable 'choices'
Errors == {"ClientError", "TimeoutError", "StatusError", "FormatError"}

(***************************************************************************)
(* State machine                                                           *)
(***************************************************************************)
\* chunk_size: negative, zero and positive; retry_attempts: from none;
\* retry_delay: the default 2; boundary repair off, its default
Configs ==
    [chunk_size : (-1)..MaxChunkSize,
     retry_attempts : 0..MaxRetries,
     retry_delay : {2},
     enable_boundary_optimization : {FALSE}]

IdlePass ==
    /\ chunks = <<>>
    /\ i = 0
    /\ chunk = <<>>
    /\ incomplete_sentence = <<>>
    /\ processed_chunks = <<>>
    /\ failed_chunks = <<>>
    /\ attempt = 0
    /\ tries = 0
    /\ waits = <<>>
    /\ call_state = "idle"
    /\ in_flight = 0
    /\ session_open = FALSE
    /\ last_request = NoRequest
    /\ last_error = NoError
    /\ history = <<>>
    /\ final_content = <<>>
    /\ split_positions = <<>>
    /\ output = NoFile
    /\ processed_files = <<>>

IdleRepair ==
    /\ document = <<>>
    /\ sorted_positions = <<>>
    /\ seam = 0
    /\ boundary = NoBoundary
    /\ repaired = <<>>
    /\ seam_results = <<>>
    /\ fixed_content = None

\* the exit code of a run that has not ended
NoExit == -1

\* a directory that does not exist
NoDir == [exists |-> FALSE, files |-> {}]

\* no run of main.py: the converter is used on its own
IdleMain ==
    /\ youtube_link = FALSE
    /\ stage = "idle"
    /\ exit_code = NoExit
    /\ ran = <<>>
    /\ fs = [raw |-> NoDir, processed |-> NoDir, output |-> NoDir]
    /\ produced = {}
    /\ consumed = {}

IdleConverter == IdlePass /\ IdleRepair

Idle == IdleConverter /\ IdleMain

Init ==
    /\ config \in Configs
    /\ text \in Texts
    /\ pc = "start"
    /\ Idle

\* if incomplete_sentence: chunk = incomplete_sentence + " " + chunk
Augment_drop(f, c) == c

Augment(f, c) == IF f # <<>> THEN f \o <<SP>> \o c ELSE c

\* wait_time = retry_delay * (2 ** attempt)
BackoffWait_flat(delay, a) == delay

BackoffWait(delay, a) == delay * (2 ^ a)

\* the bound is off by one: the last attempt that may be retried is not
AttemptsRemain_short == attempt < config.retry_attempts - 2

\* if attempt < self.config['retry_attempts'] - 1
AttemptsRemain == attempt < config.retry_attempts - 1

\* process_file_async up to split_text, chunk_size = 0: range() raises
\* ValueError, which leaves process_file_async
SplitRaises ==
    /\ pc = "start"
    /\ config.chunk_size = 0
    /\ pc' = "error"
    /\ UNCHANGED <<main_vars, processed_files, config, text, chunks, i, chunk, incomplete_sentence,
                   processed_chunks, failed_chunks, attempt, tries, waits,
                   call_state, in_flight, session_open, last_request, last_error, history,
                   final_content, split_positions, output>>
    /\ UNCHANGED repair_vars

\* process_file_async up to read_file: none of the encodings decodes the
\* file and read_file raises ValueError, which leaves process_file_async
ReadRaises ==
    /\ pc = "start"
    /\ pc' = "error"
    /\ UNCHANGED <<main_vars, processed_files, config, text, chunks, i, chunk, incomplete_sentence,
                   processed_chunks, failed_chunks, attempt, tries, waits,
                   call_state, in_flight, session_open, last_request, last_error, history,
                   final_content, split_positions, output>>
    /\ UNCHANGED repair_vars

\* process_file_async up to the entry of the loop of
\* process_chunks_sequentially: read, split, open the session
ReadAndSplit ==
    /\ pc = "start"
    /\ config.chunk_size # 0
    /\ chunks' = split_text(text, config.chunk_size)
    /\ processed_chunks' = <<>>
    /\ incomplete_sentence' = <<>>
    /\ i' = 0
    /\ session_open' = TRUE
    /\ pc' = "loop"
    /\ UNCHANGED <<main_vars, processed_files, config, text, chunk, failed_chunks, attempt, tries, waits,
                   call_state, in_flight, last_request, last_error, history, final_content,
                   split_positions, output>>
    /\ UNCHANGED repair_vars

\* the tail of one loop iteration: extract the marker, store the output,
\* update the carry-over
StoreResult(content, status, raw) ==
    LET r == extract_incomplete_sentence(content)
    IN /\ processed_chunks' = Append(processed_chunks, r[1])
       /\ incomplete_sentence' = r[2]
       /\ history' = Append(history,
                            [input |-> chunk, status |-> status, response |-> raw,
                             returned |-> <<content>>])
       /\ i' = i + 1
       /\ pc' = "loop"

\* session.post(...) of one attempt: a request goes out over the session
Post ==
    /\ session_open
    /\ in_flight' = in_flight + 1
    /\ tries' = tries + 1
    /\ last_request' = i

\* one loop iteration up to the first await, retry_attempts >= 1: the input
\* is built and process_chunk_async issues the request of attempt 0
StartStep ==
    /\ pc = "loop"
    /\ i < Len(chunks)
    /\ config.retry_attempts >= 1
    /\ chunk' = Augment(incomplete_sentence, chunks[i + 1])
    /\ attempt' = 0
    /\ in_flight' = in_flight + 1
    /\ tries' = 1
    /\ last_request' = i
    /\ session_open
    /\ waits' = <<>>
    /\ call_state' = "running"
    /\ pc' = "await"
    /\ UNCHANGED <<main_vars, processed_files, config, text, chunks, i, incomplete_sentence,
                   processed_chunks, failed_chunks, session_open, last_error,
                   history, final_content, split_positions, output>>
    /\ UNCHANGED repair_vars

\* one loop iteration with retry_attempts <= 0: range() is empty,
\* process_chunk_async returns None, unpacking it raises, and the except
\* branch of the loop stores the placeholder
StartStepNoAttempts ==
    /\ pc = "loop"
    /\ i < Len(chunks)
    /\ config.retry_attempts < 1
    /\ LET c == Augment(incomplete_sentence, chunks[i + 1])
       IN /\ chunk' = c
          /\ processed_chunks' = Append(processed_chunks, Placeholder(c))
          /\ history' = Append(history,
                               [input |-> c, status |-> "failed", response |-> <<>>,
                                returned |-> NoResult])
    /\ incomplete_sentence' = <<>>
    /\ attempt' = 0
    /\ tries' = 0
    /\ waits' = <<>>
    /\ call_state' = "failed"
    /\ i' = i + 1
    /\ pc' = "loop"
    /\ UNCHANGED <<main_vars, processed_files, config, text, chunks, failed_chunks, in_flight, session_open,
                   last_request, last_error, final_content, split_positions, output>>
    /\ UNCHANGED repair_vars

\* status 200 with choices: the content is returned, and the loop stores it
AttemptSucceeds ==
    /\ pc = "await"
    /\ \E raw \in Responses(chunk) :
          StoreResult(strip(strip(raw)), "completed", raw)
    /\ in_flight' = in_flight - 1
    /\ call_state' = "ok"
    /\ UNCHANGED <<main_vars, processed_files, config, text, chunks, chunk, failed_chunks, attempt, tries,
                   waits, session_open, last_request, last_error, final_content,
                   split_positions, output>>
    /\ UNCHANGED repair_vars

\* the retry is issued while the failed request is still outstanding
AttemptFailsRetry_overlap ==
    /\ pc = "await"
    /\ AttemptsRemain
    /\ \E e \in Errors : last_error' = e
    /\ waits' = Append(waits, BackoffWait(config.retry_delay, attempt))
    /\ pc' = "sleep"
    /\ UNCHANGED <<main_vars, processed_files, config, text, chunks, i, chunk, incomplete_sentence,
                   processed_chunks, failed_chunks, attempt, tries, call_state,
                   in_flight, session_open, last_request, history, final_content,
                   split_positions, output>>
    /\ UNCHANGED repair_vars

\* an attempt raises and attempts remain: the except clause binds the
\* exception and awaits asyncio.sleep(wait_time)
AttemptFailsRetry ==
    /\ pc = "await"
    /\ AttemptsRemain
    /\ \E e \in Errors : last_error' = e
    /\ in_flight' = in_flight - 1
    /\ waits' = Append(waits, BackoffWait(config.retry_delay, attempt))
    /\ pc' = "sleep"
    /\ UNCHANGED <<main_vars, processed_files, config, text, chunks, i, chunk, incomplete_sentence,
                   processed_chunks, failed_chunks, attempt, tries, call_state,
                   session_open, last_request, history, final_content,
                   split_positions, output>>
    /\ UNCHANGED repair_vars

\* the sleep ends: the next iteration of the attempt loop issues its request
WakeUp ==
    /\ pc = "sleep"
    /\ attempt' = attempt + 1
    /\ last_error' = NoError
    /\ Post
    /\ pc' = "await"
    /\ UNCHANGED <<main_vars, processed_files, config, text, chunks, i, chunk, incomplete_sentence,
                   processed_chunks, failed_chunks, waits, call_state,
                   session_open, history, final_content, split_positions, output>>
    /\ UNCHANGED repair_vars

\* a response without usable 'choices' ends the call at once
AttemptFailsFinal_protocol ==
    /\ pc = "await"
    /\ \E e \in Errors :
          /\ (~AttemptsRemain \/ e = "FormatError")
          /\ failed_chunks' = Append(failed_chunks,
                                     [index |-> i, content |-> chunk, error |-> e])
    /\ StoreResult(Placeholder(chunk), "failed", <<>>)
    /\ in_flight' = in_flight - 1
    /\ call_state' = "failed"
    /\ UNCHANGED <<main_vars, processed_files, config, text, chunks, chunk, attempt, tries, waits,
                   session_open, last_request, last_error, final_content,
                   split_positions, output>>
    /\ UNCHANGED repair_vars

\* the last attempt raises: the failure is recorded, the placeholder is
\* returned as the call's result, and the loop stores it as any result
AttemptFailsFinal ==
    /\ pc = "await"
    /\ ~AttemptsRemain
    /\ \E e \in Errors :
          failed_chunks' = Append(failed_chunks,
                                  [index |-> i, content |-> chunk, error |-> e])
    /\ StoreResult(Placeholder(chunk), "failed", <<>>)
    /\ in_flight' = in_flight - 1
    /\ call_state' = "failed"
    /\ UNCHANGED <<main_vars, processed_files, config, text, chunks, chunk, attempt, tries, waits,
                   session_open, last_request, last_error, final_content, split_positions, output>>
    /\ UNCHANGED repair_vars

\* the session of the sequential pass is left open when the pass returns
FinishPass_leak ==
    /\ pc = "loop"
    /\ i >= Len(chunks)
    /\ processed_chunks' =
          IF incomplete_sentence # <<>> /\ processed_chunks # <<>>
          THEN [processed_chunks EXCEPT ![Len(processed_chunks)] =
                    @ \o EndOfFileNote(incomplete_sentence)]
          ELSE processed_chunks
    /\ attempt' = 0
    /\ tries' = 0
    /\ waits' = <<>>
    /\ call_state' = "idle"
    /\ pc' = "merge"
    /\ UNCHANGED <<main_vars, processed_files, config, text, chunks, i, chunk, incomplete_sentence,
                   failed_chunks, in_flight, session_open, last_request, last_error,
                   history, final_content, split_positions, output>>
    /\ UNCHANGED repair_vars

\* after the loop: the session is closed and a remaining fragment is
\* appended to the last stored output; the locals of the last call are gone
FinishPass ==
    /\ pc = "loop"
    /\ i >= Len(chunks)
    /\ session_open' = FALSE
    /\ processed_chunks' =
          IF incomplete_sentence # <<>> /\ processed_chunks # <<>>
          THEN [processed_chunks EXCEPT ![Len(processed_chunks)] =
                    @ \o EndOfFileNote(incomplete_sentence)]
          ELSE processed_chunks
    /\ attempt' = 0
    /\ tries' = 0
    /\ waits' = <<>>
    /\ call_state' = "idle"
    /\ pc' = "merge"
    /\ UNCHANGED <<main_vars, processed_files, config, text, chunks, i, chunk, incomplete_sentence,
                   failed_chunks, in_flight, last_request, last_error, history, final_content,
                   split_positions, output>>
    /\ UNCHANGED repair_vars

\* the repair pass is entered whenever there is a seam, whatever the flag
MergeContent_unconditional ==
    /\ pc = "merge"
    /\ LET m == merge_content(processed_chunks)
           repair == m[2] # <<>>
       IN /\ final_content' = m[1]
          /\ split_positions' = m[2]
          /\ document' = IF repair THEN m[1] ELSE <<>>
          /\ sorted_positions' = IF repair THEN SortedPositions(m[2]) ELSE <<>>
          /\ session_open' = repair
          /\ pc' = IF repair THEN "repair" ELSE "write"
    /\ seam' = 0
    /\ UNCHANGED <<main_vars, processed_files, config, text, chunks, i, chunk, incomplete_sentence,
                   processed_chunks, failed_chunks, attempt, tries, waits,
                   call_state, in_flight, last_request, last_error, history,
                   output, boundary, repaired, seam_results, fixed_content>>

\* final_content, split_positions = self.merge_content(processed_chunks);
\* with enable_boundary_optimization and at least one seam,
\* optimize_boundaries_async is entered: the seams are sorted and the
\* session of the repair pass is opened
MergeContent ==
    /\ pc = "merge"
    /\ LET m == merge_content(processed_chunks)
           repair == config.enable_boundary_optimization /\ m[2] # <<>>
       IN /\ final_content' = m[1]
          /\ split_positions' = m[2]
          /\ document' = IF repair THEN m[1] ELSE <<>>
          /\ sorted_positions' = IF repair THEN SortedPositions(m[2]) ELSE <<>>
          /\ session_open' = repair
          /\ pc' = IF repair THEN "repair" ELSE "write"
    /\ seam' = 0
    /\ UNCHANGED <<main_vars, processed_files, config, text, chunks, i, chunk, incomplete_sentence,
                   processed_chunks, failed_chunks, attempt, tries, waits,
                   call_state, in_flight, last_request, last_error, history,
                   output, boundary, repaired, seam_results, fixed_content>>

\* one iteration of the repair loop up to the first await, retry_attempts
\* >= 1: the window is extracted and optimize_single_boundary_async issues
\* the request of attempt 0
StartSeam ==
    /\ pc = "repair"
    /\ seam < Len(sorted_positions)
    /\ config.retry_attempts >= 1
    /\ boundary' = extract_boundary_context(document, sorted_positions[seam + 1].pos)
    /\ repaired' = Append(repaired, sorted_positions[seam + 1].pos)
    /\ attempt' = 0
    /\ session_open
    /\ in_flight' = in_flight + 1
    /\ tries' = 1
    /\ waits' = <<>>
    /\ call_state' = "running"
    /\ pc' = "repair_await"
    /\ UNCHANGED <<main_vars, processed_files, config, text, chunks, i, chunk, incomplete_sentence,
                   processed_chunks, failed_chunks, session_open, last_request,
                   last_error, history, final_content, split_positions, output,
                   document, sorted_positions, seam, seam_results,
                   fixed_content>>

\* the exception of the repair pass is not caught by process_file_async
StartSeamNoAttempts_uncaught ==
    /\ pc = "repair"
    /\ seam < Len(sorted_positions)
    /\ config.retry_attempts < 1
    /\ session_open' = FALSE
    /\ pc' = "error"
    /\ UNCHANGED <<main_vars, processed_files, config, text, chunks, i, chunk, incomplete_sentence,
                   processed_chunks, failed_chunks, attempt, tries, waits,
                   call_state, in_flight, last_request, last_error, history,
                   final_content, split_positions, output>>
    /\ UNCHANGED repair_vars

\* the repair loop with retry_attempts <= 0: range() is empty,
\* optimize_single_boundary_async returns None, unpacking it raises, the
\* exception leaves the session block and optimize_boundaries_async, and
\* process_file_async logs it and keeps the merged document
StartSeamNoAttempts ==
    /\ pc = "repair"
    /\ seam < Len(sorted_positions)
    /\ config.retry_attempts < 1
    /\ session_open' = FALSE
    /\ pc' = "write"
    /\ UNCHANGED <<main_vars, processed_files, config, text, chunks, i, chunk, incomplete_sentence,
                   processed_chunks, failed_chunks, attempt, tries, waits,
                   call_state, in_flight, last_request, last_error, history,
                   final_content, split_positions, output>>
    /\ UNCHANGED repair_vars

\* the text of the response is returned as it came, without .strip()
RepairSucceeds_unstripped ==
    /\ pc = "repair_await"
    /\ \E raw \in RepairResponses(boundary.text) :
          fixed_content' = raw
    /\ document' = IF fixed_content' # <<>>
                   THEN apply_boundary_fix(document, boundary.start_pos,
                                           boundary.end_pos, fixed_content')
                   ELSE document
    /\ boundary' = NoBoundary
    /\ seam_results' = Append(seam_results, TRUE)
    /\ in_flight' = in_flight - 1
    /\ call_state' = "ok"
    /\ seam' = seam + 1
    /\ pc' = "repair"
    /\ UNCHANGED <<main_vars, processed_files, config, text, chunks, i, chunk, incomplete_sentence,
                   processed_chunks, failed_chunks, attempt, tries, waits,
                   session_open, last_request, last_error, history,
                   final_content, split_positions, output, sorted_positions,
                   repaired>>

\* status 200 with choices: the stripped text is returned and, when it is
\* not empty, spliced over the window
RepairSucceeds ==
    /\ pc = "repair_await"
    /\ \E raw \in RepairResponses(boundary.text) :
          fixed_content' = strip(raw)
    /\ document' = IF fixed_content' # <<>>
                   THEN apply_boundary_fix(document, boundary.start_pos,
                                           boundary.end_pos, fixed_content')
                   ELSE document
    /\ boundary' = NoBoundary
    /\ seam_results' = Append(seam_results, TRUE)
    /\ in_flight' = in_flight - 1
    /\ call_state' = "ok"
    /\ seam' = seam + 1
    /\ pc' = "repair"
    /\ UNCHANGED <<main_vars, processed_files, config, text, chunks, i, chunk, incomplete_sentence,
                   processed_chunks, failed_chunks, attempt, tries, waits,
                   session_open, last_request, last_error, history,
                   final_content, split_positions, output, sorted_positions,
                   repaired>>

\* a repair attempt raises and attempts remain: asyncio.sleep(wait_time)
RepairFailsRetry ==
    /\ pc = "repair_await"
    /\ AttemptsRemain
    /\ \E e \in Errors : last_error' = e
    /\ in_flight' = in_flight - 1
    /\ waits' = Append(waits, BackoffWait(config.retry_delay, attempt))
    /\ pc' = "repair_sleep"
    /\ UNCHANGED <<main_vars, processed_files, config, text, chunks, i, chunk, incomplete_sentence,
                   processed_chunks, failed_chunks, attempt, tries, call_state,
                   session_open, last_request, history, final_content,
                   split_positions, output>>
    /\ UNCHANGED repair_vars

\* the sleep ends: the next repair attempt issues its request
RepairWakeUp ==
    /\ pc = "repair_sleep"
    /\ attempt' = attempt + 1
    /\ last_error' = NoError
    /\ session_open
    /\ in_flight' = in_flight + 1
    /\ tries' = tries + 1
    /\ pc' = "repair_await"
    /\ UNCHANGED <<main_vars, processed_files, config, text, chunks, i, chunk, incomplete_sentence,
                   processed_chunks, failed_chunks, waits, call_state,
                   session_open, last_request, history, final_content,
                   split_positions, output>>
    /\ UNCHANGED repair_vars

\* a seam whose repair failed ends the repair pass
RepairFailsFinal_abort ==
    /\ pc = "repair_await"
    /\ ~AttemptsRemain
    /\ boundary' = NoBoundary
    /\ seam_results' = Append(seam_results, FALSE)
    /\ fixed_content' = None
    /\ in_flight' = in_flight - 1
    /\ call_state' = "failed"
    /\ session_open' = FALSE
    /\ pc' = "write"
    /\ UNCHANGED <<main_vars, processed_files, config, text, chunks, i, chunk, incomplete_sentence,
                   processed_chunks, failed_chunks, attempt, tries, waits,
                   last_request, last_error, history,
                   final_content, split_positions, output, document,
                   sorted_positions, seam, repaired>>

\* the last repair attempt raises: (boundary_index, None, False) is
\* returned and the document is left as it is
RepairFailsFinal ==
    /\ pc = "repair_await"
    /\ ~AttemptsRemain
    /\ boundary' = NoBoundary
    /\ seam_results' = Append(seam_results, FALSE)
    /\ fixed_content' = None
    /\ in_flight' = in_flight - 1
    /\ call_state' = "failed"
    /\ seam' = seam + 1
    /\ pc' = "repair"
    /\ UNCHANGED <<main_vars, processed_files, config, text, chunks, i, chunk, incomplete_sentence,
                   processed_chunks, failed_chunks, attempt, tries, waits,
                   session_open, last_request, last_error, history,
                   final_content, split_positions, output, document,
                   sorted_positions, repaired>>

\* after the last seam: the session is closed and the repaired document
\* is returned to process_file_async
FinishRepair ==
    /\ pc = "repair"
    /\ seam >= Len(sorted_positions)
    /\ session_open' = FALSE
    /\ final_content' = document
    /\ attempt' = 0
    /\ tries' = 0
    /\ waits' = <<>>
    /\ call_state' = "idle"
    /\ pc' = "write"
    /\ UNCHANGED <<main_vars, processed_files, config, text, chunks, i, chunk, incomplete_sentence,
                   processed_chunks, failed_chunks, in_flight, last_request,
                   last_error, history, split_positions, output>>
    /\ UNCHANGED repair_vars

\* f.write(final_content)
WriteOutput ==
    /\ pc = "write"
    /\ output' = <<final_content>>
    /\ pc' = "done"
    /\ UNCHANGED <<main_vars, processed_files, config, text, chunks, i, chunk, incomplete_sentence,
                   processed_chunks, failed_chunks, attempt, tries, waits,
                   call_state, in_flight, session_open, last_request, last_error, history,
                   final_content, split_positions>>
    /\ UNCHANGED repair_vars

Next ==
    \/ SplitRaises
    \/ ReadAndSplit
    \/ StartStep
    \/ StartStepNoAttempts
    \/ AttemptSucceeds
    \/ AttemptFailsRetry
    \/ WakeUp
    \/ AttemptFailsFinal
    \/ FinishPass
    \/ MergeContent
    \/ WriteOutput

Spec == Init /\ [][Next]_vars

(***************************************************************************)
(* The whole of process_file_async, boundary repair off and on.  The event *)
(* loop runs the one coroutine until it returns: a request ends by its     *)
(* response or by its timeout, a sleep ends.                               *)
(***************************************************************************)
PipelineTexts ==
    { <<"a", SP, "b">>,
      <<"[", "N", ":", "a", "]", SP, "b">>,
      <<"a", SP, "b", "]", SP, "a">> }

PipelineConfigs ==
    [chunk_size : {-1, 0, 1},
     retry_attempts : {0, 1, 2},
     retry_delay : {2},
     enable_boundary_optimization : BOOLEAN]

InitPipeline ==
    /\ config \in PipelineConfigs
    /\ text \in PipelineTexts
    /\ pc = "start"
    /\ Idle

NextPipeline ==
    \/ SplitRaises
    \/ ReadAndSplit
    \/ StartStep
    \/ StartStepNoAttempts
    \/ AttemptSucceeds
    \/ AttemptFailsRetry
    \/ WakeUp
    \/ AttemptFailsFinal
    \/ FinishPass
    \/ MergeContent
    \/ StartSeam
    \/ StartSeamNoAttempts
    \/ RepairSucceeds
    \/ RepairFailsRetry
    \/ RepairWakeUp
    \/ RepairFailsFinal
    \/ FinishRepair
    \/ WriteOutput

PipelineSpec == InitPipeline /\ [][NextPipeline]_vars /\ WF_vars(NextPipeline)

(***************************************************************************)
(* merge_content, final_cleanup and the repair pass as functions of the    *)
(* list of stored outputs                                                  *)
(***************************************************************************)
MaxOutputs == 3

\* stored outputs: nothing, a plain paragraph, a paragraph under a format
\* label, a label nested in a label, and a failure placeholder
Outputs ==
    { <<>>,
      <<"a">>,
      <<"[", "A", "]", "a">>,
      <<"[", "A", "[", "N", "]", "]">>,
      Placeholder(<<"b">>) }

RepairConfigs ==
    [chunk_size : {1},
     retry_attempts : {0, 2},
     retry_delay : {2},
     enable_boundary_optimization : BOOLEAN]

InitRepair ==
    /\ config \in RepairConfigs
    /\ text = <<>>
    /\ pc = "merge"
    /\ chunks = <<>>
    /\ i = 0
    /\ chunk = <<>>
    /\ incomplete_sentence = <<>>
    /\ processed_chunks \in SeqsUpTo(Outputs, MaxOutputs)
    /\ failed_chunks = <<>>
    /\ attempt = 0
    /\ tries = 0
    /\ waits = <<>>
    /\ call_state = "idle"
    /\ in_flight = 0
    /\ session_open = FALSE
    /\ last_request = NoRequest
    /\ last_error = NoError
    /\ history = <<>>
    /\ final_content = <<>>
    /\ split_positions = <<>>
    /\ output = NoFile
    /\ document = <<>>
    /\ sorted_positions = <<>>
    /\ seam = 0
    /\ boundary = NoBoundary
    /\ repaired = <<>>
    /\ seam_results = <<>>
    /\ fixed_content = None
    /\ processed_files = <<>>
    /\ IdleMain

NextRepair ==
    \/ MergeContent
    \/ StartSeam
    \/ StartSeamNoAttempts
    \/ RepairSucceeds
    \/ RepairFailsRetry
    \/ RepairWakeUp
    \/ RepairFailsFinal
    \/ FinishRepair
    \/ WriteOutput

RepairSpec == InitRepair /\ [][NextRepair]_vars

(***************************************************************************)
(* The repair pass left by an exception after it has begun                 *)
(***************************************************************************)
\* process_file_async takes over what the pass had spliced so far
RepairHandlerRaises_partial ==
    /\ pc = "repair_await"
    /\ \E e \in Errors : last_error' = e
    /\ in_flight' = in_flight - 1
    /\ call_state' = "failed"
    /\ session_open' = FALSE
    /\ final_content' = document
    /\ pc' = "write"
    /\ UNCHANGED <<main_vars, processed_files, config, text, chunks, i, chunk, incomplete_sentence,
                   processed_chunks, failed_chunks, attempt, tries, waits,
                   last_request, history, split_positions, output>>
    /\ UNCHANGED repair_vars

\* an attempt raises and the except clause raises in turn, computing
\* wait_time = retry_delay * (2 ** attempt) from a retry_delay that is not a
\* number (None, a string): the exception leaves
\* optimize_single_boundary_async, the session block and
\* optimize_boundaries_async, and process_file_async logs it; final_content
\* was to be assigned from the value the pass returns and keeps the merged
\* document. The model keeps retry_delay a number and lets the clause
\* raise at any failed attempt.
RepairHandlerRaises ==
    /\ pc = "repair_await"
    /\ \E e \in Errors : last_error' = e
    /\ in_flight' = in_flight - 1
    /\ call_state' = "failed"
    /\ session_open' = FALSE
    /\ pc' = "write"
    /\ UNCHANGED <<main_vars, processed_files, config, text, chunks, i, chunk, incomplete_sentence,
                   processed_chunks, failed_chunks, attempt, tries, waits,
                   last_request, history, final_content, split_positions,
                   output>>
    /\ UNCHANGED repair_vars

NextRaise ==
    \/ MergeContent
    \/ StartSeam
    \/ StartSeamNoAttempts
    \/ RepairSucceeds
    \/ RepairFailsRetry
    \/ RepairWakeUp
    \/ RepairFailsFinal
    \/ RepairHandlerRaises
    \/ FinishRepair
    \/ WriteOutput

RaiseSpec == InitRepair /\ [][NextRaise]_vars

(***************************************************************************)
(* merge_content as a function of any list of outputs, whitespace-only     *)
(* ones and ones of several lines included                                 *)
(***************************************************************************)
MergeOutputs ==
    { <<>>,
      <<SP>>,
      <<NL, SP>>,
      <<"a">>,
      <<"b", NL, "a">>,
      <<"[", "A", "]", "a">> }

InitMerge ==
    /\ config = [chunk_size |-> 1, retry_attempts |-> 3, retry_delay |-> 2,
                 enable_boundary_optimization |-> FALSE]
    /\ text = <<>>
    /\ pc = "merge"
    /\ chunks = <<>>
    /\ i = 0
    /\ chunk = <<>>
    /\ incomplete_sentence = <<>>
    /\ processed_chunks \in SeqsUpTo(MergeOutputs, MaxOutputs)
    /\ failed_chunks = <<>>
    /\ attempt = 0
    /\ tries = 0
    /\ waits = <<>>
    /\ call_state = "idle"
    /\ in_flight = 0
    /\ session_open = FALSE
    /\ last_request = NoRequest
    /\ last_error = NoError
    /\ history = <<>>
    /\ final_content = <<>>
    /\ split_positions = <<>>
    /\ output = NoFile
    /\ processed_files = <<>>
    /\ IdleRepair
    /\ IdleMain

NextMerge ==
    \/ MergeContent
    \/ WriteOutput

MergeSpec == InitMerge /\ [][NextMerge]_vars

(***************************************************************************)
(* extract_boundary_context as a function of any document and offset: the  *)
(* repair loop at its first seam                                           *)
(***************************************************************************)
MaxParas == 4

\* paragraphs of one line and of two
ParaTexts == { <<"a">>, <<"b", NL, "a">> }

\* runs of newlines between paragraphs, and before and after the document
ParaSeps == { <<NL, NL>>, <<NL, NL, NL>> }
ParaFrames == { <<>>, <<NL, NL>> }

ContextDocs ==
    { lead \o join(ps, sep) \o trail :
          ps \in SeqsUpTo(ParaTexts, MaxParas), sep \in ParaSeps,
          lead \in ParaFrames, trail \in ParaFrames }

InitContext ==
    /\ config = [chunk_size |-> 1, retry_attempts |-> 1, retry_delay |-> 2,
                 enable_boundary_optimization |-> TRUE]
    /\ text = <<>>
    /\ pc = "repair"
    /\ chunks = <<>>
    /\ i = 0
    /\ chunk = <<>>
    /\ incomplete_sentence = <<>>
    /\ processed_chunks = <<>>
    /\ failed_chunks = <<>>
    /\ attempt = 0
    /\ tries = 0
    /\ waits = <<>>
    /\ call_state = "idle"
    /\ in_flight = 0
    /\ session_open = TRUE
    /\ last_request = NoRequest
    /\ last_error = NoError
    /\ history = <<>>
    /\ document \in ContextDocs
    /\ final_content = document
    /\ \E split_pos \in 0..(StrLen(document) + 1) :
          /\ split_positions = <<split_pos>>
          /\ sorted_positions = SortedPositions(<<split_pos>>)
    /\ output = NoFile
    /\ processed_files = <<>>
    /\ seam = 0
    /\ boundary = NoBoundary
    /\ repaired = <<>>
    /\ seam_results = <<>>
    /\ fixed_content = None
    /\ IdleMain

NextContext == StartSeam

ContextSpec == InitContext /\ [][NextContext]_vars

(***************************************************************************)
(* One step of the sequential pass on a chunk that holds several markers:  *)
(* the transcript is one chunk, and the request of its first attempt is    *)
(* out                                                                     *)
(***************************************************************************)
MaxMarkerWords == 3

\* a plain word and two markers around different fragments
MarkerWords ==
    { <<"c">>,
      <<"[", "N", ":", "a", "]">>,
      <<"[", "N", ":", "b", "]">> }

MarkerChunks ==
    { join(ws, <<SP>>) : ws \in SeqsUpTo(MarkerWords, MaxMarkerWords) \ {<<>>} }

InitExtract ==
    /\ config = [chunk_size |-> MaxMarkerWords, retry_attempts |-> 1,
                 retry_delay |-> 2, enable_boundary_optimization |-> FALSE]
    /\ text \in MarkerChunks
    /\ pc = "await"
    /\ chunks = split_text(text, config.chunk_size)
    /\ i = 0
    /\ chunk = Augment(<<>>, chunks[1])
    /\ incomplete_sentence = <<>>
    /\ processed_chunks = <<>>
    /\ failed_chunks = <<>>
    /\ attempt = 0
    /\ tries = 1
    /\ waits = <<>>
    /\ call_state = "running"
    /\ in_flight = 1
    /\ session_open = TRUE
    /\ last_request = 0
    /\ last_error = NoError
    /\ history = <<>>
    /\ final_content = <<>>
    /\ split_positions = <<>>
    /\ output = NoFile
    /\ processed_files = <<>>
    /\ IdleRepair
    /\ IdleMain

NextExtract ==
    \/ AttemptSucceeds
    \/ FinishPass

ExtractSpec == InitExtract /\ [][NextExtract]_vars

(***************************************************************************)
(* batch_process_folder: one converter processes the files of a folder one *)
(* after the other, each by process_file; an exception of process_file is  *)
(* caught and the next file is processed                                   *)
(***************************************************************************)
\* number of files in the folder
MaxFiles == 2

BatchTexts == { <<"a">>, <<"a", SP, "b">> }

BatchConfigs ==
    [chunk_size : {0, 1},
     retry_attempts : {0, 2},
     retry_delay : {2},
     enable_boundary_optimization : {FALSE}]

InitBatch ==
    /\ config \in BatchConfigs
    /\ text \in BatchTexts
    /\ pc = "start"
    /\ Idle

\* the loop goes to the next file: process_file starts with fresh locals on
\* the same converter object, or the folder is finished
NextFile ==
    /\ IF Len(processed_files) + 1 < MaxFiles
       THEN /\ text' \in BatchTexts
            /\ pc' = "start"
       ELSE /\ text' = text
            /\ pc' = "batch_done"
    /\ chunks' = <<>>
    /\ i' = 0
    /\ chunk' = <<>>
    /\ incomplete_sentence' = <<>>
    /\ processed_chunks' = <<>>
    /\ attempt' = 0
    /\ tries' = 0
    /\ waits' = <<>>
    /\ call_state' = "idle"
    /\ last_request' = NoRequest
    /\ last_error' = NoError
    /\ history' = <<>>
    /\ final_content' = <<>>
    /\ split_positions' = <<>>
    /\ output' = NoFile
    /\ UNCHANGED <<main_vars, config, failed_chunks, in_flight, session_open>>
    /\ UNCHANGED repair_vars

\* process_file returned: the file is recorded as a success
FileSucceeded ==
    /\ pc = "done"
    /\ processed_files' = Append(processed_files, "success")
    /\ NextFile

\* process_file raised: the file is recorded as failed and the exception
\* ends the loop over the files
FileFailed_abort ==
    /\ pc = "error"
    /\ processed_files' = Append(processed_files, "failed")
    /\ text' = text
    /\ pc' = "batch_done"
    /\ chunks' = <<>>
    /\ i' = 0
    /\ chunk' = <<>>
    /\ incomplete_sentence' = <<>>
    /\ processed_chunks' = <<>>
    /\ attempt' = 0
    /\ tries' = 0
    /\ waits' = <<>>
    /\ call_state' = "idle"
    /\ last_request' = NoRequest
    /\ last_error' = NoError
    /\ history' = <<>>
    /\ final_content' = <<>>
    /\ split_positions' = <<>>
    /\ output' = NoFile
    /\ UNCHANGED <<main_vars, config, failed_chunks, in_flight, session_open>>
    /\ UNCHANGED repair_vars

\* process_file raised: the file is recorded as failed
FileFailed ==
    /\ pc = "error"
    /\ processed_files' = Append(processed_files, "failed")
    /\ NextFile

NextBatch ==
    \/ SplitRaises
    \/ ReadRaises
    \/ ReadAndSplit
    \/ StartStep
    \/ StartStepNoAttempts
    \/ AttemptSucceeds
    \/ AttemptFailsRetry
    \/ WakeUp
    \/ AttemptFailsFinal
    \/ FinishPass
    \/ MergeContent
    \/ WriteOutput
    \/ FileSucceeded
    \/ FileFailed

BatchSpec == InitBatch /\ [][NextBatch]_vars

(***************************************************************************)
(* split_text as a pure function of (text, chunk_size), chunk_size >= 1    *)
(***************************************************************************)
InitSplit ==
    /\ config \in [chunk_size : 1..MaxChunkSize, retry_attempts : {3},
                   retry_delay : {2}, enable_boundary_optimization : {FALSE}]
    /\ text \in SplitTexts
    /\ pc = "split_in"
    /\ Idle

SplitOnly ==
    /\ pc = "split_in"
    /\ chunks' = split_text(text, config.chunk_size)
    /\ pc' = "split_out"
    /\ UNCHANGED <<main_vars, processed_files, config, text, i, chunk, incomplete_sentence,
                   processed_chunks, failed_chunks, attempt, tries, waits,
                   call_state, in_flight, session_open, last_request, last_error, history,
                   final_content, split_positions, output>>
    /\ UNCHANGED repair_vars

NextSplit == SplitOnly

SplitSpec == InitSplit /\ [][NextSplit]_vars

(***************************************************************************)
(* main.py: one run of the stages download, convert, format, clean-up,     *)
(* started in src/tools. Each script is a subprocess; what it does is      *)
(* kept as its exit code and the files it reads and writes.                *)
(***************************************************************************)
\* transcripts one download can add to ../raw
MaxVideos == 2

\* files: 0 is a file an earlier run left behind, 1..MaxVideos are the
\* transcripts of this run; X.txt in ../raw and X.md made of it bear the
\* same number
NewFiles == 1..MaxVideos

\* a directory as a run can find it: absent, empty, or holding an old file
FoundDirs == { NoDir,
               [exists |-> TRUE, files |-> {}],
               [exists |-> TRUE, files |-> {0}] }

\* downloader.py: the default output_dir is <project root>/raw
downloader_output_dir == "raw"

\* converter_args = ['--input_path', '../raw', '-o', '../processed']
converter_args == [input_path |-> "raw", output |-> "processed"]

\* formatter.py: processed_path = os.path.join(base_path, "output")
processed_path == "output"

\* what run_script returned for a script
Ran(script_name, ok) == [script |-> script_name, ok |-> ok]

InitMain ==
    /\ config \in [chunk_size : {1}, retry_attempts : {2}, retry_delay : {2},
                   enable_boundary_optimization : {TRUE}]
    /\ text = <<>>
    /\ pc = "start"
    /\ IdleConverter
    /\ youtube_link \in BOOLEAN
    /\ stage = "download"
    /\ exit_code = NoExit
    /\ ran = <<>>
    /\ fs \in [raw : FoundDirs, processed : FoundDirs, output : FoundDirs]
    /\ produced = {}
    /\ consumed = {}

\* if args.youtube_link: is false, step 1 is not run
DownloadSkipped ==
    /\ stage = "download"
    /\ ~youtube_link
    /\ stage' = "convert"
    /\ UNCHANGED <<youtube_link, exit_code, ran, fs, produced, consumed>>
    /\ UNCHANGED converter_vars

\* run_script('downloader.py', ...) returns True: the downloader wrote at
\* least one transcript to its output directory and exited with code 0
DownloadSucceeds ==
    /\ stage = "download"
    /\ youtube_link
    /\ \E downloaded \in (SUBSET NewFiles) \ {{}} :
          fs' = [fs EXCEPT ![downloader_output_dir] =
                               [exists |-> TRUE, files |-> @.files \cup downloaded]]
    /\ ran' = Append(ran, Ran("downloader.py", TRUE))
    /\ stage' = "convert"
    /\ UNCHANGED <<youtube_link, exit_code, produced, consumed>>
    /\ UNCHANGED converter_vars

\* run_script returns False (the script is missing, or it exits with a
\* code other than 0: an import fails, no transcript is downloaded), and
\* main calls sys.exit(1); the downloader may have made its directory
DownloadFails ==
    /\ stage = "download"
    /\ youtube_link
    /\ \E made \in BOOLEAN :
          fs' = [fs EXCEPT ![downloader_output_dir] =
                               IF made THEN [@ EXCEPT !.exists = TRUE] ELSE @]
    /\ ran' = Append(ran, Ran("downloader.py", FALSE))
    /\ stage' = "exit"
    /\ exit_code' = 1
    /\ UNCHANGED <<youtube_link, produced, consumed>>
    /\ UNCHANGED converter_vars

\* the converter exits with a failure code and main goes on to step 3
ConvertFails_unchecked ==
    /\ stage = "convert"
    /\ ran' = Append(ran, Ran("converter.py", FALSE))
    /\ stage' = "format"
    /\ UNCHANGED <<youtube_link, exit_code, fs, produced, consumed>>
    /\ UNCHANGED converter_vars

\* run_script('converter.py', converter_args) returns True: converter.py
\* exited with code 0. Its main() returns normally when no API key is set,
\* when the input path is not a directory, and when batch_process_folder
\* raises; when batch_process_folder is reached it makes the output
\* directory and writes X.md there for every X.txt that was processed
\* without an exception.
ConvertSucceeds ==
    /\ stage = "convert"
    /\ \E reached \in BOOLEAN :
       \E written \in SUBSET fs[converter_args.input_path].files :
          /\ reached => fs[converter_args.input_path].exists
          /\ ~reached => written = {}
          /\ fs' = IF reached
                   THEN [fs EXCEPT ![converter_args.output] =
                                       [exists |-> TRUE,
                                        files |-> @.files \cup written]]
                   ELSE fs
          /\ produced' = written
    /\ ran' = Append(ran, Ran("converter.py", TRUE))
    /\ stage' = "format"
    /\ UNCHANGED <<youtube_link, exit_code, consumed>>
    /\ UNCHANGED converter_vars

\* run_script returns False for converter.py (the script is missing, an
\* import fails, the arguments are rejected): sys.exit(1)
ConvertFails ==
    /\ stage = "convert"
    /\ ran' = Append(ran, Ran("converter.py", FALSE))
    /\ stage' = "exit"
    /\ exit_code' = 1
    /\ UNCHANGED <<youtube_link, fs, produced, consumed>>
    /\ UNCHANGED converter_vars

\* run_script('formatter.py') returns True: the formatter listed the .md
\* files of processed_path and handled each of them
FormatSucceeds ==
    /\ stage = "format"
    /\ fs[processed_path].exists
    /\ consumed' = fs[processed_path].files
    /\ ran' = Append(ran, Ran("formatter.py", TRUE))
    /\ stage' = "cleanup"
    /\ UNCHANGED <<youtube_link, exit_code, fs, produced>>
    /\ UNCHANGED converter_vars

\* run_script returns False for formatter.py: config.yml cannot be loaded,
\* os.listdir(processed_path) raises because the directory is absent, or
\* the handling of a file raises after the directory was listed
FormatFails ==
    /\ stage = "format"
    /\ \E listed \in BOOLEAN :
          /\ listed => fs[processed_path].exists
          /\ consumed' = IF listed THEN fs[processed_path].files ELSE {}
    /\ ran' = Append(ran, Ran("formatter.py", FALSE))
    /\ stage' = "exit"
    /\ exit_code' = 1
    /\ UNCHANGED <<youtube_link, fs, produced>>
    /\ UNCHANGED converter_vars

\* step 4: shutil.rmtree of ../raw and then of ../processed, each if it
\* exists; an exception of either ends the step and is only printed, and
\* main returns
Cleanup ==
    /\ stage = "cleanup"
    /\ \E raised_at \in {"nowhere", "raw", "processed"} :
          /\ raised_at # "nowhere" => fs[raised_at].exists
          /\ fs' = [fs EXCEPT
                       !.raw = IF raised_at = "raw" THEN @ ELSE NoDir,
                       !.processed = IF raised_at = "nowhere" THEN NoDir ELSE @]
    /\ stage' = "exit"
    /\ exit_code' = 0
    /\ UNCHANGED <<youtube_link, ran, produced, consumed>>
    /\ UNCHANGED converter_vars

NextMain ==
    \/ DownloadSkipped
    \/ DownloadSucceeds
    \/ DownloadFails
    \/ ConvertSucceeds
    \/ ConvertFails
    \/ FormatSucceeds
    \/ FormatFails
    \/ Cleanup

MainSpec == InitMain /\ [][NextMain]_vars

(***************************************************************************)
(* Helpers of the properties                                               *)
(***************************************************************************)
\* number of positions of s at which t occurs
Count(t, s) ==
    Cardinality({k \in 1..(Len(s) - Len(t) + 1) : SubSeq(s, k, k + Len(t) - 1) = t})

Contains(s, t) == Count(t, s) > 0

RECURSIVE Flatten(_)
Flatten(ss) == IF ss = <<>> THEN <<>> ELSE Head(ss) \o Flatten(Tail(ss))

InCall == pc \in {"await", "sleep"}

\* the fragment the hand-off protocol lets step k (1-based) start with: the
\* one wrapped by the marker of step k-1's response when step k-1 completed
ProtocolFragment(k) ==
    IF k = 1 THEN <<>>
    ELSE IF history[k - 1].status = "completed"
         THEN MarkerFragment(strip(history[k - 1].response))
         ELSE <<>>

(***************************************************************************)
(* C1: the text sent for step i is F + " " + chunk[i] when step i-1        *)
(* completed and its response wrapped a non-empty F in a marker, and is    *)
(* exactly chunk[i] when i = 0, step i-1 had no marker, or step i-1 failed.*)
(***************************************************************************)
C1_InputText ==
    /\ \A k \in 1..Len(history) :
          history[k].input = Augment(ProtocolFragment(k), chunks[k])
    /\ InCall => chunk = Augment(ProtocolFragment(i + 1), chunks[i + 1])

(***************************************************************************)
(* C2: two chunks, chunk 1's response wraps T in a marker, chunk 2         *)
(* returns its input text with no marker of its own: the merged document   *)
(* contains T exactly once and chunk 1's stored output holds no marker.    *)
(* T is taken to occur nowhere but in the marker and the hand-off.         *)
(***************************************************************************)
C2_T == MarkerFragment(strip(history[1].response))

C2_Case ==
    /\ pc \in {"write", "done"}
    /\ Len(chunks) = 2
    /\ Len(history) = 2
    /\ history[1].status = "completed"
    /\ history[2].status = "completed"
    /\ C2_T # <<>>
    /\ history[2].response = history[2].input
    /\ ~HasMarker(strip(history[2].response))
    /\ Count(C2_T, re_sub_bracket(strip(history[1].response),
                                  IncompleteHead, 1, FALSE)) = 0
    /\ Count(C2_T, C2_T \o <<SP>> \o chunks[2]) = 1

C2_Kept ==
    /\ ~HasMarker(processed_chunks[1])
    /\ Count(C2_T, final_content) = 1

C2_FragmentOnce_AnyT == C2_Case => C2_Kept

\* amended: no "[" in T, in chunk 1's stored output or in chunk 2, and no
\* line break in T
C2_PlainT ==
    /\ \A k \in 1..Len(C2_T) : C2_T[k] \notin {"[", NL}
    /\ \A k \in 1..Len(processed_chunks[1]) : processed_chunks[1][k] # "["
    /\ \A k \in 1..Len(chunks[2]) : chunks[2][k] # "["

C2_FragmentOnce == (C2_Case /\ C2_PlainT) => C2_Kept

C2_Witness ==
    /\ C2_Case
    /\ C2_PlainT
    /\ processed_chunks[1] # <<>>
    /\ output = <<final_content>>
    /\ Count(C2_T, output[1]) = 1

(***************************************************************************)
(* C3: when the last chunk's response wraps a non-empty fragment in a      *)
(* marker, the merged document contains that fragment under the            *)
(* end-of-document annotation.                                             *)
(***************************************************************************)
C3_LastFragment ==
    IF history # <<>> /\ history[Len(history)].status = "completed"
    THEN MarkerFragment(strip(history[Len(history)].response))
    ELSE <<>>

C3_EndFragmentKept ==
    (pc \in {"write", "done"} /\ C3_LastFragment # <<>>)
        => Contains(final_content,
                    <<"[">> \o EndOfFileHead \o <<SP>> \o C3_LastFragment \o <<"]">>)

(***************************************************************************)
(* C4: a step whose every attempt failed (retry_attempts >= 1) has the     *)
(* placeholder wrapping its augmented input as stored output and exactly   *)
(* one failed-chunk record, holding its index and augmented input.         *)
(***************************************************************************)
C4_RecordsOf(k) ==
    {m \in 1..Len(failed_chunks) : failed_chunks[m].index = k - 1}

C4_FailureStoresPlaceholder ==
    config.retry_attempts >= 1 =>
        \A k \in 1..Len(history) :
            history[k].status = "failed" =>
                /\ processed_chunks[k] = Placeholder(history[k].input)
                /\ Cardinality(C4_RecordsOf(k)) = 1
                /\ \A m \in C4_RecordsOf(k) :
                      failed_chunks[m].content = history[k].input

(***************************************************************************)
(* C5: after a step that ended in terminal failure the carry-over          *)
(* fragment is empty, whatever the failed step's input held.               *)
(***************************************************************************)
C5_FailureClearsFragment ==
    (i >= 1 /\ Len(history) = i /\ history[i].status = "failed")
        => incomplete_sentence = <<>>

(***************************************************************************)
(* C6: at most one request is in flight, and a request of step i is in     *)
(* flight, or waiting to be retried, only when exactly the steps before i  *)
(* have been stored; the latest request never belongs to a later step.     *)
(***************************************************************************)
C6_OneCallInOrder ==
    /\ in_flight \in {0, 1}
    /\ in_flight = 1 <=> pc \in {"await", "repair_await"}
    /\ last_request <= i
    /\ last_request < Len(chunks)
    /\ InCall => /\ last_request = i
                 /\ Len(processed_chunks) = i
                 /\ Len(history) = i

C6_Witness ==
    /\ pc = "await"
    /\ in_flight = 1
    /\ i >= 1
    /\ tries >= 2
    /\ incomplete_sentence # <<>>

(***************************************************************************)
(* C7: for chunk_size >= 1 the chunks rejoined with single spaces are the  *)
(* whitespace-normalized word sequence of the text, and the words of the   *)
(* chunks are the words of the text, in order.                             *)
(***************************************************************************)
C7_SplitPreservesWords ==
    pc = "split_out" =>
        /\ join(chunks, <<SP>>) = join(split(text), <<SP>>)
        /\ Flatten([k \in 1..Len(chunks) |-> split(chunks[k])]) = split(text)

C7_Witness ==
    /\ pc = "split_out"
    /\ Len(chunks) >= 2
    /\ text # join(split(text), <<SP>>)
    /\ join(chunks, <<SP>>) = join(split(text), <<SP>>)

(***************************************************************************)
(* C8: for chunk_size >= 1 every chunk but the last holds exactly          *)
(* chunk_size words, the last holds 1..chunk_size words, and a text        *)
(* without words yields no chunk.                                          *)
(***************************************************************************)
C8_ChunkSizes ==
    pc = "split_out" =>
        /\ \A k \in 1..Len(chunks) :
              /\ Len(split(chunks[k])) >= 1
              /\ Len(split(chunks[k])) <= config.chunk_size
              /\ k < Len(chunks) => Len(split(chunks[k])) = config.chunk_size
        /\ split(text) = <<>> => chunks = <<>>

C8_Witness ==
    /\ pc = "split_out"
    /\ Len(chunks) >= 2
    /\ Len(split(chunks[1])) = config.chunk_size
    /\ Len(split(chunks[Len(chunks)])) < config.chunk_size

(***************************************************************************)
(* C9: with chunk_size 0 or negative no request is issued and no output    *)
(* document is written.                                                    *)
(***************************************************************************)
C9_RejectsBadChunkSize ==
    config.chunk_size <= 0 => (last_request = NoRequest /\ output = NoFile)

(***************************************************************************)
(* C10: a logical call makes at most retry_attempts attempts and ends at   *)
(* the first success; the wait after failed attempt a (from 0) is          *)
(* retry_delay * 2^a; the final failed attempt is followed by no wait.     *)
(***************************************************************************)
C10_RetryBackoff ==
    /\ tries <= Max(config.retry_attempts, 0)
    /\ \A a \in 1..Len(waits) : waits[a] = config.retry_delay * (2 ^ (a - 1))
    /\ pc = "sleep" => Len(waits) = tries
    /\ pc = "await" => Len(waits) = tries - 1
    /\ call_state = "ok" => (~InCall /\ tries >= 1 /\ Len(waits) = tries - 1)
    /\ call_state = "failed" =>
          /\ ~InCall
          /\ tries = config.retry_attempts
          /\ Len(waits) = Max(config.retry_attempts - 1, 0)

C10_Witness ==
    /\ call_state = "ok"
    /\ tries = 3
    /\ waits = <<config.retry_delay, 2 * config.retry_delay>>
    /\ config.retry_delay > 1

(***************************************************************************)
(* C11: when every attempt of a chunk call has failed, process_chunk_async *)
(* hands back no content of its own: the step's failure reaches the loop   *)
(* as something other than a result text, and only the loop builds the     *)
(* placeholder.                                                            *)
(***************************************************************************)
C11_AdapterSignalsFailure ==
    \A k \in 1..Len(history) :
        history[k].status = "failed" => history[k].returned = NoResult

(***************************************************************************)
(* C12: a failed attempt of any kind is retried while attempts remain and  *)
(* is recorded as a failure only when it was the last attempt allowed; a   *)
(* wait is always followed by one more attempt.                            *)
(***************************************************************************)
C12_FailedAttempt == pc = "await" /\ in_flight' < in_flight /\ call_state' # "ok"

C12_SamePolicy ==
    [][ /\ (C12_FailedAttempt /\ attempt < config.retry_attempts - 1)
              => /\ pc' = "sleep"
                 /\ last_error' \in Errors
                 /\ failed_chunks' = failed_chunks
                 /\ Len(history') = Len(history)
        /\ (C12_FailedAttempt /\ attempt >= config.retry_attempts - 1)
              => /\ Len(failed_chunks') = Len(failed_chunks) + 1
                 /\ failed_chunks'[Len(failed_chunks')].error \in Errors
                 /\ call_state' = "failed"
        /\ pc = "sleep"
              => /\ pc' = "await"
                 /\ tries' = tries + 1
                 /\ attempt' = attempt + 1 ]_vars

C12_Witness ==
    /\ pc = "sleep"
    /\ last_error = "TimeoutError"
    /\ attempt = 1
    /\ tries = 2
    /\ failed_chunks # <<>>
    /\ failed_chunks[1].error = "StatusError"

(***************************************************************************)
(* C13: after a response without usable 'choices' the call makes no        *)
(* further attempt.                                                        *)
(***************************************************************************)
C13_ProtocolErrorNotRetried ==
    [][ (pc = "sleep" /\ last_error = "FormatError") => tries' = tries ]_vars

\* amended: such a response is retried like any other failure, and ends
\* the call only as its last allowed attempt
C13_ProtocolErrorRetried ==
    [][ /\ (pc = "sleep" /\ last_error = "FormatError")
              => (pc' = "await" /\ tries' = tries + 1)
        /\ (/\ pc = "await"
            /\ Len(failed_chunks') > Len(failed_chunks)
            /\ failed_chunks'[Len(failed_chunks')].error = "FormatError")
              => (tries = config.retry_attempts /\ Len(waits) = tries - 1) ]_vars

C13_Witness ==
    /\ call_state = "failed"
    /\ tries = 3
    /\ Len(waits) = 2
    /\ failed_chunks # <<>>
    /\ failed_chunks[Len(failed_chunks)].error = "FormatError"

(***************************************************************************)
(* C14: once the transcript is split, whatever attempts of chunk calls and *)
(* repair calls fail, the run ends with an output document written; no     *)
(* failed chunk and no failed or raising repair stops it.                  *)
(***************************************************************************)
\* steps one call may still take: a failed attempt, its wait, the next
\* attempt, ..., and the step that ends the call
C14_CallSteps == 2 * Max(config.retry_attempts, 1) + 2

C14_AttemptsLeft == 2 * (Max(config.retry_attempts, 1) - 1 - attempt)

\* a bound on the steps left, by position in process_file_async
C14_Measure ==
    LET n == Len(chunks)
        r == Len(sorted_positions)
    IN CASE pc = "start" -> 5 + 2 * Len(split(text)) * C14_CallSteps
         [] pc = "loop" -> 4 + (2 * n - i) * C14_CallSteps
         [] pc = "await" -> 5 + (2 * n - i - 1) * C14_CallSteps + C14_AttemptsLeft
         [] pc = "sleep" -> 4 + (2 * n - i - 1) * C14_CallSteps + C14_AttemptsLeft
         [] pc = "merge" -> 3 + n * C14_CallSteps
         [] pc = "repair" -> 2 + (r - seam) * C14_CallSteps
         [] pc = "repair_await" -> 3 + (r - seam - 1) * C14_CallSteps + C14_AttemptsLeft
         [] pc = "repair_sleep" -> 2 + (r - seam - 1) * C14_CallSteps + C14_AttemptsLeft
         [] pc = "write" -> 1
         [] OTHER -> 0

\* the guards of the actions of NextPipeline, position by position
C14_StepEnabled ==
    \/ pc \in {"start", "await", "merge", "repair_await", "write"}
    \/ /\ pc = "loop"
       /\ (i >= Len(chunks) \/ config.retry_attempts < 1 \/ session_open)
    \/ /\ pc = "repair"
       /\ \/ seam >= Len(sorted_positions)
          \/ config.retry_attempts < 1
          \/ session_open
    \/ /\ pc \in {"sleep", "repair_sleep"}
       /\ session_open

\* the run never stops short of the written document: a step is possible
\* everywhere but at the end, and the only other end is the split raising
C14_NeverStuck ==
    /\ C14_Measure >= 0
    /\ pc \notin {"done", "error"} => C14_StepEnabled
    /\ pc = "error" => config.chunk_size = 0
    /\ pc = "done" => output = <<final_content>>

\* every step brings the end nearer, so under the fairness of PipelineSpec
\* the run reaches the end, and the end is the document written
C14_AlwaysWrites ==
    []C14_NeverStuck /\ [][C14_Measure' < C14_Measure]_vars

C14_Witness ==
    /\ pc = "done"
    /\ output = <<final_content>>
    /\ config.enable_boundary_optimization
    /\ config.retry_attempts = 0
    /\ Len(split_positions) = 2
    /\ \A k \in 1..Len(history) : history[k].status = "failed"

(***************************************************************************)
(* C15: when every model call fails, the document written is, chunk by     *)
(* chunk and in order, the placeholder tag followed by the chunk's own     *)
(* text, so its words outside the tags are the words of the transcript.    *)
(***************************************************************************)
C15_TagWords == << <<"#">>, <<"P">> >>

C15_NoDataLoss ==
    (/\ pc = "done"
     /\ config.chunk_size >= 1
     /\ \A k \in 1..Len(history) : history[k].status = "failed")
        => /\ split(output[1]) =
                 Flatten([k \in 1..Len(chunks) |-> C15_TagWords \o split(chunks[k])])
           /\ SelectSeq(split(output[1]), LAMBDA w : w \notin {<<"#">>, <<"P">>})
                 = split(text)

(***************************************************************************)
(* C16: merge_content returns one seam offset fewer than there are         *)
(* surviving chunks, none for no or one surviving chunk, and the offsets   *)
(* are strictly increasing.                                                *)
(***************************************************************************)
C16_Surviving == Len(SelectSeq(processed_chunks, NonBlank))

C16_SeamCount ==
    pc # "merge" =>
        /\ Len(split_positions) = Max(C16_Surviving - 1, 0)
        /\ \A k \in 1..(Len(split_positions) - 1) :
              split_positions[k] < split_positions[k + 1]

C16_Witness ==
    /\ pc = "done"
    /\ Len(processed_chunks) = 3
    /\ processed_chunks[2] = <<>>
    /\ Len(split_positions) = 1

(***************************************************************************)
(* C17: every seam offset returned by merge_content lies within the        *)
(* document returned with it and between two of its paragraphs: at or      *)
(* after the end of one and before the start of the next.                  *)
(***************************************************************************)
C17_AtParagraphBoundary(pos) ==
    LET pp == ParaPositions(final_content)
    IN /\ pos <= StrLen(final_content)
       /\ \E k \in 1..(Len(pp) - 1) : pp[k].end <= pos /\ pos < pp[k + 1].start

C17_SeamsAtBoundaries ==
    (pc # "merge" /\ repaired = <<>>) =>
        \A k \in 1..Len(split_positions) :
            C17_AtParagraphBoundary(split_positions[k])

(***************************************************************************)
(* C18: final_cleanup applied to its own result changes nothing.           *)
(***************************************************************************)
C18_CleanupIdempotent ==
    (pc # "merge" /\ repaired = <<>>) =>
        final_cleanup(final_content) = final_content

(***************************************************************************)
(* C19: the document written holds no incompleteness marker, no            *)
(* end-of-document marker and no format label, with repair off, done or    *)
(* failed.                                                                 *)
(***************************************************************************)
C19_HasInternalMarker(s) ==
    \E k \in 1..Len(FormatMarkers) :
        re_search_bracket(s, FormatMarkers[k].head, FormatMarkers[k].lo,
                          FormatMarkers[k].exact) > 0

C19_NoMarkerWritten ==
    pc = "done" => ~C19_HasInternalMarker(output[1])

(***************************************************************************)
(* C20: the repair pass calls for the seams one at a time, in strictly     *)
(* descending order of offset, each one once, all of them when it returns; *)
(* the seams still to come are never changed by a repair.                  *)
(***************************************************************************)
C20_InRepair == pc \in {"repair", "repair_await", "repair_sleep"}

C20_Order ==
    /\ in_flight \in {0, 1}
    /\ in_flight = 1 => pc = "repair_await"
    /\ Len(repaired) <= Len(split_positions)
    /\ \A k \in 1..Len(repaired) :
          /\ repaired[k] = sorted_positions[k].pos
          /\ k > 1 => repaired[k] < repaired[k - 1]
    /\ C20_InRepair =>
          /\ Len(sorted_positions) = Len(split_positions)
          /\ \A k \in 1..Len(sorted_positions) :
                sorted_positions[k].pos = split_positions[sorted_positions[k].idx + 1]
          /\ \A k, m \in 1..Len(sorted_positions) :
                k # m => sorted_positions[k].idx # sorted_positions[m].idx
          /\ Len(repaired) = seam + (IF pc = "repair" THEN 0 ELSE 1)
    /\ (pc \in {"write", "done"} /\ sorted_positions # <<>>
           /\ config.retry_attempts >= 1)
          => Len(repaired) = Len(split_positions)

C20_PendingKept ==
    C20_InRepair => (sorted_positions' = sorted_positions /\ seam' >= seam)

C21_SeamRepaired == pc = "repair_await" /\ pc' = "repair"

\* the blank line of a join starts at offset pos of document d
C21_AtJoin(d, pos) == CharSlice(d, pos, pos + 2) = <<NL, NL>>

C21_PendingSeamsValid ==
    [][ C21_SeamRepaired =>
          /\ CharPrefix(document', sorted_positions[seam + 1].pos)
                = CharPrefix(document, sorted_positions[seam + 1].pos)
          /\ \A k \in (seam + 2)..Len(sorted_positions) :
                C21_AtJoin(document, sorted_positions[k].pos)
                    => C21_AtJoin(document', sorted_positions[k].pos) ]_vars

(***************************************************************************)
(* C22: a seam whose repair call failed on every attempt leaves the        *)
(* document as it was, and the pass goes on: the next seam gets its window *)
(* from the document and its own fresh call, as after a success, and every *)
(* seam has been processed when the pass returns.                          *)
(***************************************************************************)
C22_SeamFailed == pc = "repair_await" /\ call_state' = "failed"

C22_NextSeamStarted == pc = "repair" /\ pc' = "repair_await"

C22_PassGoesOn ==
    /\ (pc = "repair" /\ seam < Len(sorted_positions) /\ config.retry_attempts >= 1)
          => session_open
    /\ (pc \in {"write", "done"} /\ sorted_positions # <<>>
           /\ config.retry_attempts >= 1)
          => Len(seam_results) = Len(sorted_positions)

C22_Step ==
    /\ C22_SeamFailed
          => /\ document' = document
             /\ sorted_positions' = sorted_positions
             /\ seam' = seam + 1
             /\ session_open'
             /\ pc' = "repair"
    /\ C22_NextSeamStarted
          => /\ boundary' = extract_boundary_context(
                                document, sorted_positions[seam + 1].pos)
             /\ attempt' = 0
             /\ tries' = 1
             /\ waits' = <<>>

C22_FailureIsolated == []C22_PassGoesOn /\ [][C22_Step]_vars

C22_Witness ==
    /\ pc = "done"
    /\ seam_results = <<FALSE, TRUE>>
    /\ Len(repaired) = 2
    /\ output = <<final_content>>
    /\ final_content # merge_content(processed_chunks)[1]

(***************************************************************************)
(* C23: with enable_boundary_optimization off, or with no seam returned by *)
(* merge_content, the repair pass is not entered, no repair call is made,  *)
(* and the document written is the one merge_content returned.             *)
(***************************************************************************)
C23_NoRepairDue ==
    /\ pc # "merge"
    /\ (~config.enable_boundary_optimization \/ split_positions = <<>>)

C23_PassThrough ==
    C23_NoRepairDue =>
        /\ ~C20_InRepair
        /\ repaired = <<>>
        /\ seam_results = <<>>
        /\ tries = 0
        /\ in_flight = 0
        /\ ~session_open
        /\ final_content = merge_content(processed_chunks)[1]
        /\ pc = "done" => output = <<merge_content(processed_chunks)[1]>>

C23_Witness ==
    /\ pc = "done"
    /\ ~config.enable_boundary_optimization
    /\ Len(split_positions) = 2
    /\ config.retry_attempts >= 1
    /\ output = <<merge_content(processed_chunks)[1]>>

(***************************************************************************)
(* C24: a session is open exactly while the sequential pass or the repair  *)
(* pass runs, it is closed however the pass is left, by its return or by   *)
(* an exception, and a request is only ever issued, and outstanding, over  *)
(* an open session.                                                        *)
(***************************************************************************)
C24_InPass ==
    pc \in {"loop", "await", "sleep", "repair", "repair_await", "repair_sleep"}

C24_Scoped ==
    /\ session_open <=> C24_InPass
    /\ in_flight > 0 => session_open

C24_RequestIssued == in_flight' > in_flight

C24_SessionScoped ==
    []C24_Scoped /\ [][C24_RequestIssued => (session_open /\ session_open')]_vars

\* the repair pass left by the exception of its first seam
C24_Witness ==
    /\ pc = "write"
    /\ ~session_open
    /\ config.enable_boundary_optimization
    /\ config.retry_attempts = 0
    /\ sorted_positions # <<>>
    /\ repaired = <<>>
    /\ Len(history) = 3

(***************************************************************************)
(* C25: merge_content drops every empty or whitespace-only output, joins   *)
(* the others in their order with one blank line ("\n\n") between two      *)
(* neighbours, and records for every join the length of the text joined    *)
(* before it; the document returned is final_cleanup of the joined text.   *)
(***************************************************************************)
C25_Blank(c) == \A k \in 1..Len(c) : IsSpace(c[k])

C25_Kept == SelectSeq(processed_chunks, LAMBDA c : ~C25_Blank(c))

\* the first n surviving outputs, joined
C25_Joined(n) == join(SubSeq(C25_Kept, 1, n), <<NL, NL>>)

C25_MergeJoins ==
    pc # "merge" =>
        /\ Len(split_positions) = Max(Len(C25_Kept) - 1, 0)
        /\ \A k \in 1..Len(split_positions) :
              split_positions[k] = StrLen(C25_Joined(k))
        /\ final_content = final_cleanup(C25_Joined(Len(C25_Kept)))

C25_Witness ==
    /\ pc = "write"
    /\ Len(processed_chunks) = 3
    /\ processed_chunks[1] = <<"b", NL, "a">>
    /\ processed_chunks[2] = <<NL, SP>>
    /\ split_positions = <<3>>
    /\ final_content = <<"b", NL, "a", NL, NL, "a">>

(***************************************************************************)
(* C26: the window of extract_boundary_context is made of whole            *)
(* consecutive paragraphs, at most four: when a paragraph ends at or after *)
(* the seam offset, the first such paragraph, the one before it and up to  *)
(* the two after it; 0 <= start <= end <= len(document) and the text is    *)
(* document[start:end].                                                    *)
(***************************************************************************)
\* the paragraphs of s with the offsets they really have, found by one scan
C26_Spans(s) ==
    LET RECURSIVE go(_, _, _)
        go(k, from, acc) ==
            IF k > Len(s)
            THEN Append(acc, [start |-> StrLen(SubSeq(s, 1, from)),
                              end |-> StrLen(s)])
            ELSE LET r == NewlineRun(s, k)
                 IN IF r >= 2
                    THEN go(k + r, k - 1 + r,
                            Append(acc, [start |-> StrLen(SubSeq(s, 1, from)),
                                         end |-> StrLen(SubSeq(s, 1, k - 1))]))
                    ELSE go(k + 1, from, acc)
    IN go(1, 0, <<>>)

C26_NonEmpty(ps) == SelectSeq(ps, LAMBDA para : para # <<>>)

\* the window starts where paragraph lo starts and holds paragraphs lo..hi
C26_Holds(lo, hi) ==
    /\ boundary.start_pos = C26_Spans(document)[lo].start
    /\ C26_NonEmpty(Paragraphs(boundary.text))
          = C26_NonEmpty(SubSeq(Paragraphs(document), lo, hi))

C26_WindowOfParagraphs ==
    pc = "repair_await" =>
        LET spans == C26_Spans(document)
            n == Len(spans)
            at == {k \in 1..n : spans[k].end >= sorted_positions[seam + 1].pos}
            first == CHOOSE k \in at : \A x \in at : k <= x
        IN /\ 0 <= boundary.start_pos
           /\ boundary.start_pos <= boundary.end_pos
           /\ boundary.end_pos <= StrLen(document)
           /\ boundary.text
                 = CharSlice(document, boundary.start_pos, boundary.end_pos)
           /\ Len(Paragraphs(boundary.text)) <= 4
           /\ at # {} => C26_Holds(Max(first - 1, 1), Min(first + 2, n))
           /\ at = {} => \E lo, hi \in 1..n :
                             lo <= hi /\ hi - lo <= 3 /\ C26_Holds(lo, hi)

C26_Witness ==
    /\ pc = "repair_await"
    /\ Len(Paragraphs(document)) >= 6
    /\ Len(Paragraphs(boundary.text)) = 4
    /\ boundary.start_pos > 0
    /\ boundary.end_pos < StrLen(document)
    /\ boundary.start_pos < sorted_positions[seam + 1].pos
    /\ sorted_positions[seam + 1].pos < boundary.end_pos

(***************************************************************************)
(* C27: when the sequential pass has returned there is one stored output   *)
(* per chunk, in chunk order, and the output of a chunk is the model's     *)
(* text with the marker stripped when its call completed, and the          *)
(* placeholder around the text sent when it failed; the last one may carry *)
(* the end-of-document annotation.                                         *)
(***************************************************************************)
C27_PassReturned == pc \in {"merge", "write", "done"}

C27_Expected(k) ==
    IF history[k].status = "completed"
    THEN extract_incomplete_sentence(strip(history[k].response))[1]
    ELSE Placeholder(history[k].input)

C27_OneOutputPerChunk ==
    C27_PassReturned =>
        /\ Len(processed_chunks) = Len(chunks)
        /\ Len(history) = Len(chunks)
        /\ \A k \in 1..Len(processed_chunks) :
              \/ processed_chunks[k] = C27_Expected(k)
              \/ /\ k = Len(processed_chunks)
                 /\ incomplete_sentence # <<>>
                 /\ processed_chunks[k]
                       = C27_Expected(k) \o EndOfFileNote(incomplete_sentence)

(***************************************************************************)
(* C28: after a step that completed, the fragment of every incompleteness  *)
(* marker of the response is in the new carry-over fragment or still in    *)
(* the step's stored output, also when the response holds several markers. *)
(***************************************************************************)
\* the stripped fragment of every marker in content
C28_Fragments(content) ==
    { strip(SubSeq(content, k + Len(IncompleteHead) + 1,
                   BracketEnd(content, k, IncompleteHead, 1, FALSE) - 1)) :
          k \in {m \in 1..Len(content) :
                    BracketEnd(content, m, IncompleteHead, 1, FALSE) > 0} }

C28_NoFragmentLost ==
    (pc = "loop" /\ Len(history) = 1 /\ history[1].status = "completed")
        => \A f \in C28_Fragments(strip(history[1].response)) :
               \/ Contains(incomplete_sentence, f)
               \/ Contains(processed_chunks[1], f)

(***************************************************************************)
(* C29: when the sequential pass has returned, whatever retry_attempts is, *)
(* a chunk's stored output is a failure placeholder if and only if the     *)
(* chunk has a failed-chunk record, and it has at most one.                *)
(***************************************************************************)
\* the stored output starts with the placeholder's heading
C29_IsPlaceholder(c) == Len(c) >= 3 /\ SubSeq(c, 1, 3) = <<"#", SP, "P">>

C29_PlaceholdersRecorded ==
    pc = "merge" =>
        /\ \A k \in 1..Len(processed_chunks) :
              /\ C29_IsPlaceholder(processed_chunks[k]) <=> C4_RecordsOf(k) # {}
              /\ Cardinality(C4_RecordsOf(k)) <= 1
        /\ \A m \in 1..Len(failed_chunks) :
              failed_chunks[m].index < Len(processed_chunks)

(***************************************************************************)
(* C30: in a batch, the failed-chunk list that process_file_async looks at *)
(* after the sequential pass of a document holds only records of chunks of *)
(* that document that failed, none of an earlier document.                 *)
(***************************************************************************)
C30_FailedSteps == {k \in 1..Len(history) : history[k].status = "failed"}

C30_OwnFailuresOnly ==
    pc = "merge" =>
        /\ Len(failed_chunks) <= Cardinality(C30_FailedSteps)
        /\ \A m \in 1..Len(failed_chunks) :
              \E k \in C30_FailedSteps :
                  /\ failed_chunks[m].index = k - 1
                  /\ failed_chunks[m].content = history[k].input

(***************************************************************************)
(* C31: a repair call that succeeds with empty or whitespace-only text     *)
(* leaves the document as it is, and one that succeeds with other text     *)
(* changes the document between start_pos and end_pos of the window only:  *)
(* document[:start_pos] and document[end_pos:] are kept.                   *)
(***************************************************************************)
C31_CallSucceeded == pc = "repair_await" /\ call_state' = "ok"

\* characters of the document after the window
C31_After == StrLen(document) - boundary.end_pos

C31_Step ==
    C31_CallSucceeded =>
        IF strip(fixed_content') = <<>>
        THEN document' = document
        ELSE /\ StrLen(document') >= boundary.start_pos + C31_After
             /\ CharPrefix(document', boundary.start_pos)
                    = CharPrefix(document, boundary.start_pos)
             /\ CharSuffix(document', StrLen(document') - C31_After)
                    = CharSuffix(document, boundary.end_pos)

C31_SpliceExact == [][C31_Step]_vars

\* the first seam's call succeeded with no text and the merged document
\* is still whole
C31_Witness ==
    /\ pc = "repair"
    /\ seam = 1
    /\ seam_results = <<TRUE>>
    /\ fixed_content = <<>>
    /\ Len(Paragraphs(document)) >= 2
    /\ document = final_content

(***************************************************************************)
(* C32: when the repair pass is left by an exception, at its first seam    *)
(* or after seams have been repaired, process_file_async still writes a    *)
(* document and it is the merged document as merge_content returned it:    *)
(* nothing the pass had spliced is in it.                                  *)
(***************************************************************************)
C32_Merged == merge_content(processed_chunks)[1]

\* the pass was entered and left before its last seam was finished
C32_PassRaised == pc \in {"write", "done"} /\ seam < Len(sorted_positions)

C32_MergedKept ==
    C32_PassRaised =>
        /\ final_content = C32_Merged
        /\ ~session_open
        /\ pc = "done" => output = <<C32_Merged>>

\* a pass that stops early goes to the write, and the write happens
C32_Step ==
    /\ (C20_InRepair /\ ~C20_InRepair' /\ seam' < Len(sorted_positions'))
           => pc' = "write"
    /\ (pc = "write" /\ pc' # "write")
           => (pc' = "done" /\ output' = <<final_content>>)

C32_ExceptionKeepsMerged == []C32_MergedKept /\ [][C32_Step]_vars

\* a seam was repaired, a later call raised, and the document written is
\* the merged one, not the spliced one
C32_Witness ==
    /\ pc = "done"
    /\ seam >= 1
    /\ seam < Len(sorted_positions)
    /\ document # C32_Merged
    /\ output = <<C32_Merged>>

(***************************************************************************)
(* C33: main.py runs downloader.py, converter.py and formatter.py in that  *)
(* order and then cleans up; a script is run only after the one before it  *)
(* returned success, the first script that fails ends the run with exit    *)
(* code 1, and ../raw and ../processed are deleted only after the scripts  *)
(* all succeeded. As stated, the three scripts are those of every run; as  *)
(* amended, downloader.py is among them only when a link was given.        *)
(***************************************************************************)
C33_AllScripts == <<"downloader.py", "converter.py", "formatter.py">>

\* the scripts of this run: step 1 is run only with a link
C33_Scripts == IF youtube_link THEN C33_AllScripts ELSE Tail(C33_AllScripts)

C33_AllSucceeded(scripts) ==
    /\ Len(ran) = Len(scripts)
    /\ \A k \in 1..Len(ran) : ran[k].ok

C33_Order(scripts) ==
    /\ Len(ran) <= Len(scripts)
    /\ \A k \in 1..Len(ran) :
          /\ ran[k].script = scripts[k]
          /\ k < Len(ran) => ran[k].ok
    /\ (ran # <<>> /\ ~ran[Len(ran)].ok) <=> exit_code = 1
    /\ exit_code = 1 => stage = "exit"
    /\ (stage = "cleanup" \/ exit_code = 0) => C33_AllSucceeded(scripts)

\* a directory of the run disappears
C33_Deleted(d) == fs[d].exists /\ ~fs'[d].exists

C33_DeleteStep(scripts) ==
    (C33_Deleted("raw") \/ C33_Deleted("processed") \/ C33_Deleted("output"))
        => /\ stage = "cleanup"
           /\ C33_AllSucceeded(scripts)
           /\ ~C33_Deleted("output")

C33_StrictOrder ==
    [](stage # "idle" => C33_Order(C33_AllScripts))
        /\ [][C33_DeleteStep(C33_AllScripts)]_vars

C33_StagesInOrder ==
    [](stage # "idle" => C33_Order(C33_Scripts))
        /\ [][C33_DeleteStep(C33_Scripts)]_vars

\* a run without a link went through convert and format and removed both
\* directories
C33_Witness ==
    /\ stage = "exit"
    /\ exit_code = 0
    /\ ~youtube_link
    /\ ran = <<Ran("converter.py", TRUE), Ran("formatter.py", TRUE)>>
    /\ ~fs.raw.exists
    /\ ~fs.processed.exists
    /\ produced # {}

(***************************************************************************)
(* C34: in one run of main.py the formatter reads exactly the documents    *)
(* the converter of that run wrote: the directory the converter is told to *)
(* write to is the directory the formatter lists.                          *)
(***************************************************************************)
C34_FormatterRan ==
    \E k \in 1..Len(ran) : ran[k].script = "formatter.py" /\ ran[k].ok

C34_SameDocuments == C34_FormatterRan => consumed = produced

(***************************************************************************)
(* C35: batch_process_folder returns one record per matched file, in the   *)
(* order the files were processed, each 'success' or 'failed'; a file      *)
(* whose processing raises is recorded as 'failed', and the loop goes on   *)
(* to the next file.                                                       *)
(***************************************************************************)
\* the records so far are those of the files finished so far
C35_OnePerFile ==
    /\ Len(processed_files) <= MaxFiles
    /\ \A k \in 1..Len(processed_files) :
          processed_files[k] \in {"success", "failed"}
    /\ pc = "batch_done" <=> Len(processed_files) = MaxFiles

\* a file ends with its own record appended, whatever the records before
\* it are, and the next file, if there is one, is started
C35_Step ==
    /\ processed_files' # processed_files
          => /\ pc \in {"done", "error"}
             /\ processed_files' =
                   Append(processed_files,
                          IF pc = "done" THEN "success" ELSE "failed")
    /\ pc \in {"done", "error"}
          => /\ Len(processed_files') = Len(processed_files) + 1
             /\ pc' = IF Len(processed_files') < MaxFiles
                      THEN "start" ELSE "batch_done"

C35_RecordPerFile == []C35_OnePerFile /\ [][C35_Step]_vars

\* the first file raised, the second one was processed and written
C35_Witness ==
    /\ pc = "batch_done"
    /\ Len(processed_files) = MaxFiles
    /\ processed_files[1] = "failed"
    /\ processed_files[MaxFiles] = "success"

====
